---- MODULE Spec2Model ----
(***************************************************************************)
(* Authentication session coordinator of the hireease mobile client:       *)
(* AuthContext (restore / login / register / logout / clearError), the     *)
(* axios wrapper with its request and response interceptors, the           *)
(* change-password screen's 401 handling and the AppNavigator screen       *)
(* selection.  Every `await` of the source is one step of the model: the   *)
(* step performs the awaited storage or network operation (which succeeds  *)
(* or fails) and runs the code that follows it up to the next await.       *)
(***************************************************************************)
EXTENDS Integers, Sequences, FiniteSets, TLC

\* ------------------------------------------------------------------ bounds
NumUsers == 2
NumTokens == 2

\* --------------------------------------------------------------- constants
TOKEN_KEY == "auth_token"
USER_KEY == "auth_user"
VERIFY_TOKEN_KEY == "token"
\* setResendCooldown(60)
RESEND_COOLDOWN == 60

Null == "null"
Absent == "absent"

Users == { "user" \o ToString(i) : i \in 1..NumUsers }
Tokens == { "tok" \o ToString(i) : i \in 1..NumTokens }

Keys == { TOKEN_KEY, USER_KEY, VERIFY_TOKEN_KEY }

\* ------------------------------------------------------------ JSON helpers
RecordPrefix == "{\"_id\":\""
RecordSuffix == "\"}"
EmptyObjectText == "{}"
EmptyObject == "[object Object]"
CorruptText == "{\"_id\":"

\* JSON.stringify(userData): the serialized user record.
JSON_stringify(u) == RecordPrefix \o u \o RecordSuffix

IsRecordText(s) ==
    /\ Len(s) > Len(RecordPrefix) + Len(RecordSuffix)
    /\ SubSeq(s, 1, Len(RecordPrefix)) = RecordPrefix
    /\ SubSeq(s, Len(s) - Len(RecordSuffix) + 1, Len(s)) = RecordSuffix

\* JSON.parse throws a SyntaxError on text that is not JSON.
JSON_parse_throws(s) == ~IsRecordText(s) /\ s # EmptyObjectText

\* JSON.parse(userData) on text that is JSON: the record's identity, or the
\* object without fields for "{}" (valid JSON that is no user record).
JSON_parse(s) ==
    IF IsRecordText(s)
    THEN SubSeq(s, Len(RecordPrefix) + 1, Len(s) - Len(RecordSuffix))
    ELSE EmptyObject

\* A stored auth_user value that is a well-formed user record.
WellFormedUser(s) == \E u \in Users : s = JSON_stringify(u)

StoredUserValues ==
    { JSON_stringify(u) : u \in Users } \cup { EmptyObjectText, CorruptText, Absent }

\* JavaScript truthiness of a value read from storage (null and "" are falsy).
Truthy(v) == v # Absent /\ v # ""

\* -------------------------------------------------------- string helpers
UpperLetters == "ABCDEFGHIJKLMNOPQRSTUVWXYZ"
LowerLetters == "abcdefghijklmnopqrstuvwxyz"

ToLowerChar(c) ==
    IF \E i \in 1..Len(UpperLetters) : SubSeq(UpperLetters, i, i) = c
    THEN LET i == CHOOSE j \in 1..Len(UpperLetters) : SubSeq(UpperLetters, j, j) = c
         IN  SubSeq(LowerLetters, i, i)
    ELSE c

\* The first n characters of s, each mapped to lower case.
RECURSIVE LowerPrefix(_, _)
LowerPrefix(s, n) ==
    IF n = 0 THEN ""
    ELSE LowerPrefix(s, n - 1) \o ToLowerChar(SubSeq(s, n, n))

toLowerCase(s) == LowerPrefix(s, Len(s))

includes(s, sub) ==
    \E i \in 1..(Len(s) - Len(sub) + 1) : SubSeq(s, i, i + Len(sub) - 1) = sub

\* ------------------------------------------------------- HTTP responses
\* What the backend (or the network) answers to one request.  shape is the
\* form of the body: "data" for a success payload {success:true,data:{user,
\* token}}, "object" for the documented error body {success:false,
\* error:{message,statusCode,errors?}}, "string" for a body whose error is a
\* bare string (empty when the body carries no error), "none" when no
\* response was received.
ServerMessages == { "", "Current password is incorrect", "Token expired" }
FieldErrorLists == { <<>>, <<"Password is too short", "Email is invalid">> }
ErrorStatuses == { 400, 401, 403, 409, 500 }

Reply(st, sh, m, es, u, t) ==
    [status |-> st, shape |-> sh, message |-> m, errors |-> es, user |-> u, token |-> t]

NoError == Reply(0, "unset", "", <<>>, Null, Absent)
NetworkError == Reply(0, "none", "", <<>>, Null, Absent)
StorageError == Reply(0, "storageError", "", <<>>, Null, Absent)
TypeError == Reply(0, "typeError", "", <<>>, Null, Absent)

SuccessReplies == { Reply(200, "data", "", <<>>, u, t) : u \in Users, t \in Tokens }
PlainSuccess == Reply(200, "data", "", <<>>, Null, Absent)

ErrorReplies ==
    { Reply(st, "object", m, <<>>, Null, Absent) :
        st \in ErrorStatuses, m \in { "", "Token expired" } }
    \cup { Reply(401, "object", m, <<>>, Null, Absent) : m \in ServerMessages }
    \cup { Reply(400, "object", m, es, Null, Absent) :
             m \in { "", "Token expired" }, es \in FieldErrorLists }
    \cup { Reply(st, "string", m, <<>>, Null, Absent) :
             st \in { 401, 403 }, m \in ServerMessages }
    \cup { NetworkError }

\* err instanceof AxiosError
IsAxiosError(e) == e.shape \in { "none", "object", "string" }
\* err.response is set
HasResponse(e) == e.shape \in { "object", "string" }
\* errorResponse.error?.errors and errorResponse.error?.message
BodyErrors(e) == IF e.shape = "object" THEN e.errors ELSE <<>>
BodyMessage(e) == IF e.shape = "object" THEN e.message ELSE ""

handleAuthError_messageFirst(e) ==
    IF ~IsAxiosError(e) THEN "An unexpected error occurred. Please try again."
    ELSE IF ~HasResponse(e)
    THEN "Unable to connect to server. Please check your internet connection."
    ELSE CASE e.status = 400 ->
                IF BodyMessage(e) # "" THEN BodyMessage(e)
                ELSE IF Len(BodyErrors(e)) > 0 THEN BodyErrors(e)[1]
                ELSE "Invalid request. Please check your input."
           [] e.status = 401 -> "Invalid email or password."
           [] e.status = 409 -> "An account with this email already exists."
           [] e.status = 500 -> "Something went wrong. Please try again later."
           [] OTHER ->
                IF BodyMessage(e) # "" THEN BodyMessage(e)
                ELSE "An unexpected error occurred."

handleAuthError(e) ==
    IF ~IsAxiosError(e) THEN "An unexpected error occurred. Please try again."
    ELSE IF ~HasResponse(e)
    THEN "Unable to connect to server. Please check your internet connection."
    ELSE CASE e.status = 400 ->
                IF Len(BodyErrors(e)) > 0 THEN BodyErrors(e)[1]
                ELSE IF BodyMessage(e) # "" THEN BodyMessage(e)
                ELSE "Invalid request. Please check your input."
           [] e.status = 401 -> "Invalid email or password."
           [] e.status = 409 -> "An account with this email already exists."
           [] e.status = 500 -> "Something went wrong. Please try again later."
           [] OTHER ->
                IF BodyMessage(e) # "" THEN BodyMessage(e)
                ELSE "An unexpected error occurred."

\* ------------------------------------------------------------ validation
IsSpace(c) == c = " "

RECURSIVE trim(_)
trim(s) ==
    IF Len(s) = 0 THEN s
    ELSE IF IsSpace(SubSeq(s, 1, 1)) THEN trim(SubSeq(s, 2, Len(s)))
    ELSE IF IsSpace(SubSeq(s, Len(s), Len(s))) THEN trim(SubSeq(s, 1, Len(s) - 1))
    ELSE s

\* [^\s@]+ : a non-empty run without white space and without '@'
PlainRun(s, a, b) ==
    /\ a <= b
    /\ \A k \in a..b : ~IsSpace(SubSeq(s, k, k)) /\ SubSeq(s, k, k) # "@"

\* /^[^\s@]+@[^\s@]+\.[^\s@]+$/
emailRegex_test(s) ==
    \E i \in 1..Len(s), j \in 1..Len(s) :
        /\ SubSeq(s, i, i) = "@"
        /\ SubSeq(s, j, j) = "."
        /\ PlainRun(s, 1, i - 1)
        /\ PlainRun(s, i + 1, j - 1)
        /\ PlainRun(s, j + 1, Len(s))

validateEmail(email) ==
    IF email = "" \/ trim(email) = "" THEN FALSE ELSE emailRegex_test(trim(email))

validatePassword(password) ==
    IF password = "" THEN FALSE ELSE Len(password) >= 6

EmailInputs == { "", "a@b.co", "nobody" }
PasswordInputs == { "", "abc", "secret" }

\* ------------------------------------------------------------------ state
\* The requests of the password-reset flow: ForgotPasswordScreen,
\* VerifyCodeScreen (verify, resend) and ResetPasswordScreen.
FlowProcs == { "forgotPassword", "verifyCode", "resendCode", "resetPassword" }
Procs ==
    { "restore", "login", "register", "logout", "changePassword", "verifyEmail" }
    \cup FlowProcs
AuthCalls == { "login", "register" }
Requesters == { "login", "register", "changePassword", "verifyEmail" } \cup FlowProcs

VARIABLES
    user,               \* AuthContext: useState<User | null>
    loading,            \* AuthContext: useState<boolean>
    error,              \* AuthContext: useState<string | null>
    storage,            \* AsyncStorage: key -> stored text, or Absent
    pc,                 \* where each asynchronous operation stands
    resp,               \* the response each request received
    thrown,             \* the error the wrapper rejected to each caller
    reqAuth,            \* Authorization header each request was sent with
    result,             \* how the last call of each operation settled
    rsToken,            \* checkAuthStatus: const token
    rsUserData,         \* checkAuthStatus: const userData
    regEmail,           \* handleRegister: the email it called register with
    logoutCaller,       \* who awaits the logout in flight
    authScreen,         \* AppNavigator: useState<AuthScreen>
    mainScreen,         \* AppNavigator: useState<MainScreen>
    effectDep,          \* isAuthenticated as last seen by the navigator's effect
    verificationEmail,  \* AppNavigator: useState<string>
    cpError,            \* ChangePasswordScreen: error
    cpLoading,          \* ChangePasswordScreen: loading
    cpSuccess,          \* ChangePasswordScreen: success
    evError,            \* EmailVerificationScreen: error
    history,            \* log: session established / 401 seen since
    opWrote,            \* log: keys the coordinator call in flight has written
    removeCalls,        \* log: outcome of each removeItem call made for a request's response
    readCalls,          \* log: outcome of each getItem call made for a request
    psPassword,         \* PasswordStrengthIndicator: the password prop
    strength,           \* PasswordStrengthIndicator: const strength, once rendered
    ceScreen,           \* code entry: which of the two code screens is mounted
    ceCode,             \* code entry: useState<string[]> code
    ceError,            \* code entry: error
    ceBusy,             \* code entry: the request that holds loading true
    ceSubmitted,        \* code entry: the codeString of the request in flight
    ceCooldown,         \* code entry: resendCooldown > 0
    resetEmail,         \* AppNavigator: useState<string>
    resetCode,          \* AppNavigator: useState<string>
    fpError,            \* ForgotPasswordScreen: error
    vcError,            \* VerifyCodeScreen: error
    vcCooldown,         \* VerifyCodeScreen: resendCooldown > 0
    rpError,            \* ResetPasswordScreen: error
    rpSuccess,          \* ResetPasswordScreen: success
    timers,             \* timeouts set by handleResetPassword that have not fired
    rfSent,             \* what each request of the reset flow was called with
    rfOrphans,          \* requests in flight whose screen has been unmounted
    lastForgot,         \* log: email of the last forgot-password form that succeeded
    lastAccepted,       \* log: (email, code) of the last verify-reset-code success
    fmScreen,           \* form: the screen whose form is filled in
    fmEmail,            \* form: email
    fmPassword,         \* form: password / newPassword
    fmCurrent,          \* form: currentPassword
    fmConfirm,          \* form: confirmPassword
    resendCooldown      \* resend: useState(0) resendCooldown of a code screen

session == << user, loading, error >>
control == << pc, resp, thrown, reqAuth, result, rsToken, rsUserData, regEmail,
             logoutCaller >>
nav == << authScreen, mainScreen, effectDep, verificationEmail >>
cpState == << cpError, cpLoading, cpSuccess >>
evState == << evError >>
logs == << history, opWrote, removeCalls, readCalls >>
\* The session machine: coordinator, HTTP wrapper, navigator and the screens
\* that call the coordinator.
mainVars == << session, storage, control, nav, cpState, evState, logs >>
psState == << psPassword, strength >>
\* The parts that are studied on their own, each under its own specification.
ceState == << ceScreen, ceCode, ceError, ceBusy, ceSubmitted, ceCooldown >>
rfState == << resetEmail, resetCode, fpError, vcError, vcCooldown, rpError, rpSuccess,
             timers, rfSent, rfOrphans, lastForgot, lastAccepted >>
fmState == << fmScreen, fmEmail, fmPassword, fmCurrent, fmConfirm >>
cdState == << resendCooldown >>
subflows == << psState, ceState, rfState, fmState, cdState >>
vars == << mainVars, subflows >>

isAuthenticated == user # Null

Settled(st, e) == [status |-> st, error |-> e]
NotSettled == Settled("none", Null)

\* No password is shown to the strength indicator.
StrengthAtRest ==
    /\ psPassword = ""
    /\ strength = Null

\* No code screen has been used.
CodeEntryAtRest ==
    /\ ceScreen = "verify-code"
    /\ ceCode = << "", "", "", "", "", "" >>
    /\ ceError = Null
    /\ ceBusy = "idle"
    /\ ceSubmitted = Null
    /\ ceCooldown = FALSE

\* The navigator and the three screens of the reset flow as constructed.
ResetFlowAtRest ==
    /\ resetEmail = ""
    /\ resetCode = ""
    /\ fpError = Null
    /\ vcError = Null
    /\ vcCooldown = FALSE
    /\ rpError = Null
    /\ rpSuccess = FALSE
    /\ timers = 0
    /\ rfSent = [p \in FlowProcs |-> [email |-> "", code |-> ""]]
    /\ rfOrphans = {}
    /\ lastForgot = Null
    /\ lastAccepted = Null

\* No form is filled in.
FormAtRest ==
    /\ fmScreen = "login"
    /\ fmEmail = ""
    /\ fmPassword = ""
    /\ fmCurrent = ""
    /\ fmConfirm = ""

\* No cooldown is running.
CooldownAtRest == resendCooldown = 0

SubflowsAtRest ==
    StrengthAtRest /\ CodeEntryAtRest /\ ResetFlowAtRest /\ FormAtRest /\ CooldownAtRest

FreshMemory_notLoading ==
    /\ user = Null
    /\ loading = FALSE
    /\ error = Null
    /\ pc = [p \in Procs |-> IF p = "restore" THEN "mount" ELSE "idle"]
    /\ resp = [p \in Requesters |-> NoError]
    /\ thrown = [p \in Requesters |-> NoError]
    /\ reqAuth = [p \in Requesters |-> Absent]
    /\ result = [p \in Procs |-> NotSettled]
    /\ rsToken = Absent
    /\ rsUserData = Absent
    /\ regEmail = ""
    /\ logoutCaller = "screen"
    /\ authScreen = "login"
    /\ mainScreen = "home"
    /\ effectDep = FALSE
    /\ verificationEmail = ""
    /\ cpError = Null
    /\ cpLoading = FALSE
    /\ cpSuccess = FALSE
    /\ evError = Null
    /\ history = [established |-> FALSE, unauthorized |-> FALSE]
    /\ opWrote = {}
    /\ removeCalls = [p \in Requesters |-> << >>]
    /\ readCalls = [p \in Requesters |-> << >>]
    /\ SubflowsAtRest

FreshMemory_settingsFirst ==
    /\ user = Null
    /\ loading = TRUE
    /\ error = Null
    /\ pc = [p \in Procs |-> IF p = "restore" THEN "mount" ELSE "idle"]
    /\ resp = [p \in Requesters |-> NoError]
    /\ thrown = [p \in Requesters |-> NoError]
    /\ reqAuth = [p \in Requesters |-> Absent]
    /\ result = [p \in Procs |-> NotSettled]
    /\ rsToken = Absent
    /\ rsUserData = Absent
    /\ regEmail = ""
    /\ logoutCaller = "screen"
    /\ authScreen = "login"
    /\ mainScreen = "settings"
    /\ effectDep = FALSE
    /\ verificationEmail = ""
    /\ cpError = Null
    /\ cpLoading = FALSE
    /\ cpSuccess = FALSE
    /\ evError = Null
    /\ history = [established |-> FALSE, unauthorized |-> FALSE]
    /\ opWrote = {}
    /\ removeCalls = [p \in Requesters |-> << >>]
    /\ readCalls = [p \in Requesters |-> << >>]
    /\ SubflowsAtRest

\* The memory of a freshly started process (AuthProvider and AppNavigator
\* initial state), whatever storage holds.
FreshMemory ==
    /\ user = Null
    /\ loading = TRUE
    /\ error = Null
    /\ pc = [p \in Procs |-> IF p = "restore" THEN "mount" ELSE "idle"]
    /\ resp = [p \in Requesters |-> NoError]
    /\ thrown = [p \in Requesters |-> NoError]
    /\ reqAuth = [p \in Requesters |-> Absent]
    /\ result = [p \in Procs |-> NotSettled]
    /\ rsToken = Absent
    /\ rsUserData = Absent
    /\ regEmail = ""
    /\ logoutCaller = "screen"
    /\ authScreen = "login"
    /\ mainScreen = "home"
    /\ effectDep = FALSE
    /\ verificationEmail = ""
    /\ cpError = Null
    /\ cpLoading = FALSE
    /\ cpSuccess = FALSE
    /\ evError = Null
    /\ history = [established |-> FALSE, unauthorized |-> FALSE]
    /\ opWrote = {}
    /\ removeCalls = [p \in Requesters |-> << >>]
    /\ readCalls = [p \in Requesters |-> << >>]
    /\ SubflowsAtRest

InitialStores ==
    { [k \in Keys |-> CASE k = TOKEN_KEY -> t [] k = USER_KEY -> u [] OTHER -> Absent] :
        t \in Tokens \cup {Absent}, u \in StoredUserValues }

Init == storage \in InitialStores /\ FreshMemory

Screen_ignoresLoading ==
    IF isAuthenticated THEN mainScreen ELSE authScreen

Screen_authFlowWhenSet ==
    IF loading THEN "loading"
    ELSE IF isAuthenticated THEN authScreen
    ELSE mainScreen

\* What AppNavigator renders.
Screen ==
    IF loading THEN "loading"
    ELSE IF isAuthenticated THEN mainScreen
    ELSE authScreen

\* No continuation of a settled call and no effect is waiting to run: the
\* event loop is ready to deliver the next user event.
UIReady ==
    /\ \A p \in Procs : pc[p] # "done"
    /\ effectDep = isAuthenticated

multiRemove_tokenOnly(store) ==
    [store EXCEPT ![TOKEN_KEY] = Absent]

multiRemove_allKeys(store) == [k \in Keys |-> Absent]

\* AsyncStorage.multiRemove([TOKEN_KEY, USER_KEY])
multiRemove(store) ==
    [store EXCEPT ![TOKEN_KEY] = Absent, ![USER_KEY] = Absent]

\* ---------------------------------------------------------- checkAuthStatus
\* useEffect(() => { checkAuthStatus(); }, []) up to the first await.
checkAuthStatus_mount ==
    /\ pc["restore"] = "mount"
    /\ loading' = TRUE
    /\ pc' = [pc EXCEPT !["restore"] = "getToken"]
    /\ UNCHANGED << user, error, storage, resp, thrown, reqAuth, result, rsToken,
                    rsUserData, regEmail, logoutCaller, nav, cpState, evState, subflows, logs >>

\* await AsyncStorage.getItem(TOKEN_KEY): resolves, or rejects into the catch.
checkAuthStatus_getToken ==
    /\ pc["restore"] = "getToken"
    /\ \E ok \in BOOLEAN :
         IF ok
         THEN /\ rsToken' = storage[TOKEN_KEY]
              /\ pc' = [pc EXCEPT !["restore"] = "getUser"]
         ELSE /\ rsToken' = rsToken
              /\ pc' = [pc EXCEPT !["restore"] = "multiRemove"]
    /\ UNCHANGED << session, storage, resp, thrown, reqAuth, result, rsUserData,
                    regEmail, logoutCaller, nav, cpState, evState, subflows, logs >>

\* if (token && userData)
BothPresent(token, userData) == Truthy(token) /\ Truthy(userData)

\* await AsyncStorage.getItem(USER_KEY); if both values are present the parse
\* and setUser; a rejection or a SyntaxError enters the catch; else finally.
checkAuthStatus_getUser ==
    /\ pc["restore"] = "getUser"
    /\ \E ok \in BOOLEAN :
         LET userData == storage[USER_KEY]
             parses == BothPresent(rsToken, userData)
         IN  /\ rsUserData' = IF ok THEN userData ELSE rsUserData
             /\ IF ok /\ ~(parses /\ JSON_parse_throws(userData))
                THEN /\ user' = IF parses THEN JSON_parse(userData) ELSE user
                     /\ loading' = FALSE
                     /\ pc' = [pc EXCEPT !["restore"] = "done"]
                     /\ result' = [result EXCEPT !["restore"] = Settled("resolved", Null)]
                     /\ history' = IF parses
                                   THEN [established |-> TRUE, unauthorized |-> FALSE]
                                   ELSE history
                ELSE /\ pc' = [pc EXCEPT !["restore"] = "multiRemove"]
                     /\ UNCHANGED << user, loading, result, history >>
    /\ UNCHANGED << error, storage, resp, thrown, reqAuth, rsToken,
                    regEmail, logoutCaller, nav, cpState, evState, subflows, opWrote, removeCalls, readCalls >>

\* How checkAuthStatus settles after the multiRemove of its catch block:
\* a rejection of it leaves the catch block and, after finally, rejects the
\* promise checkAuthStatus returned.
checkAuthStatus_afterRemove(ok) ==
    IF ok THEN Settled("resolved", Null) ELSE Settled("rejected", Null)

\* catch: await AsyncStorage.multiRemove([TOKEN_KEY, USER_KEY]); finally.
checkAuthStatus_multiRemove ==
    /\ pc["restore"] = "multiRemove"
    /\ \E ok \in BOOLEAN :
         /\ storage' = IF ok THEN multiRemove(storage) ELSE storage
         /\ result' = [result EXCEPT !["restore"] = checkAuthStatus_afterRemove(ok)]
    /\ loading' = FALSE
    /\ pc' = [pc EXCEPT !["restore"] = "done"]
    /\ UNCHANGED << user, error, resp, thrown, reqAuth, rsToken, rsUserData,
                    regEmail, logoutCaller, nav, cpState, evState, subflows, logs >>

\* The promise the mount effect dropped has settled; nobody awaits it.
checkAuthStatus_settled ==
    /\ pc["restore"] = "done"
    /\ pc' = [pc EXCEPT !["restore"] = "idle"]
    /\ result' = [result EXCEPT !["restore"] = NotSettled]
    /\ rsToken' = Absent
    /\ rsUserData' = Absent
    /\ UNCHANGED << session, storage, resp, thrown, reqAuth, regEmail,
                    logoutCaller, nav, cpState, evState, subflows, logs >>

AppRestart_keepsError ==
    /\ pc["restore"] # "mount"
    /\ user' = Null
    /\ loading' = TRUE
    /\ error' = error
    /\ pc' = [p \in Procs |-> IF p = "restore" THEN "mount" ELSE "idle"]
    /\ resp' = [p \in Requesters |-> NoError]
    /\ thrown' = [p \in Requesters |-> NoError]
    /\ reqAuth' = [p \in Requesters |-> Absent]
    /\ result' = [p \in Procs |-> NotSettled]
    /\ rsToken' = Absent
    /\ rsUserData' = Absent
    /\ regEmail' = ""
    /\ logoutCaller' = "screen"
    /\ authScreen' = "login"
    /\ mainScreen' = "home"
    /\ effectDep' = FALSE
    /\ verificationEmail' = ""
    /\ cpError' = Null
    /\ cpLoading' = FALSE
    /\ cpSuccess' = FALSE
    /\ evError' = Null
    /\ history' = [established |-> FALSE, unauthorized |-> FALSE]
    /\ opWrote' = {}
    /\ removeCalls' = [p \in Requesters |-> << >>]
    /\ readCalls' = [p \in Requesters |-> << >>]
    /\ UNCHANGED << storage, subflows >>

\* The process is killed and started again: memory is lost, storage is kept.
AppRestart ==
    /\ pc["restore"] # "mount"
    /\ user' = Null
    /\ loading' = TRUE
    /\ error' = Null
    /\ pc' = [p \in Procs |-> IF p = "restore" THEN "mount" ELSE "idle"]
    /\ resp' = [p \in Requesters |-> NoError]
    /\ thrown' = [p \in Requesters |-> NoError]
    /\ reqAuth' = [p \in Requesters |-> Absent]
    /\ result' = [p \in Procs |-> NotSettled]
    /\ rsToken' = Absent
    /\ rsUserData' = Absent
    /\ regEmail' = ""
    /\ logoutCaller' = "screen"
    /\ authScreen' = "login"
    /\ mainScreen' = "home"
    /\ effectDep' = FALSE
    /\ verificationEmail' = ""
    /\ cpError' = Null
    /\ cpLoading' = FALSE
    /\ cpSuccess' = FALSE
    /\ evError' = Null
    /\ history' = [established |-> FALSE, unauthorized |-> FALSE]
    /\ opWrote' = {}
    /\ removeCalls' = [p \in Requesters |-> << >>]
    /\ readCalls' = [p \in Requesters |-> << >>]
    /\ UNCHANGED << storage, subflows >>

\* ------------------------------------------------------------ HTTP wrapper
\* The answers to /auth/verify-email: data.token is optional.
VerifyReplies ==
    { Reply(200, "data", "", <<>>, Null, t) : t \in Tokens } \cup { PlainSuccess }

\* The answers given to the requests of the flow.
FlowReplies ==
    { PlainSuccess, NetworkError,
      Reply(400, "object", "Token expired", <<>>, Null, Absent),
      Reply(401, "string", "", <<>>, Null, Absent),
      Reply(403, "string", "Token expired", <<>>, Null, Absent),
      Reply(403, "string", "Current password is incorrect", <<>>, Null, Absent) }

RepliesFor(p) ==
    IF p \in AuthCalls THEN SuccessReplies \cup ErrorReplies
    ELSE IF p = "verifyEmail" THEN VerifyReplies \cup ErrorReplies
    ELSE IF p \in FlowProcs THEN FlowReplies
    ELSE { PlainSuccess } \cup ErrorReplies

Bearer_bare(token) == token

\* `Bearer ${token}`
Bearer(token) == "Bearer " \o token

\* The Authorization header the request interceptor attaches, given what
\* getItem(TOKEN_KEY) did: nothing when the read failed or found no token.
AuthorizationHeader(readOk, store) ==
    IF readOk /\ Truthy(store[TOKEN_KEY]) THEN Bearer(store[TOKEN_KEY]) ELSE Absent

\* error.response && error.response.status === 401
IsUnauthorized(r) == HasResponse(r) /\ r.status = 401

removeToken_bothKeys(store) ==
    [store EXCEPT ![TOKEN_KEY] = Absent, ![USER_KEY] = Absent]

removeToken_wrongKey(store) == [store EXCEPT ![USER_KEY] = Absent]

\* await AsyncStorage.removeItem(TOKEN_KEY)
removeToken(store) == [store EXCEPT ![TOKEN_KEY] = Absent]

\* return Promise.reject(error)
Rejection(r) == r

\* Request interceptor: reads the token, attaches it, sends the request.
requestInterceptor(p) ==
    /\ pc[p] = "request"
    /\ \E ok \in BOOLEAN :
         /\ reqAuth' = [reqAuth EXCEPT ![p] = AuthorizationHeader(ok, storage)]
         /\ readCalls' = [readCalls EXCEPT ![p] = Append(@, ok)]
    /\ pc' = [pc EXCEPT ![p] = "await"]
    /\ UNCHANGED << session, storage, resp, thrown, result, rsToken, rsUserData, regEmail,
                    logoutCaller, nav, cpState, evState, subflows, history, opWrote, removeCalls >>

\* Response interceptor up to its first await: a success is passed through,
\* an error that is not a 401 is rejected at once.
responseInterceptor_receive(p) ==
    /\ pc[p] = "await"
    /\ \E r \in RepliesFor(p) :
         /\ resp' = [resp EXCEPT ![p] = r]
         /\ IF IsUnauthorized(r)
            THEN /\ pc' = [pc EXCEPT ![p] = "unauthorized"]
                 /\ thrown' = thrown
            ELSE /\ pc' = [pc EXCEPT ![p] = "settled"]
                 /\ thrown' = [thrown EXCEPT ![p] =
                                  IF r.status = 200 THEN NoError ELSE Rejection(r)]
    /\ UNCHANGED << session, storage, reqAuth, result, rsToken, rsUserData, regEmail,
                    logoutCaller, nav, cpState, evState, subflows, logs >>

\* Response interceptor, 401 branch: removeItem (whose failure is caught and
\* logged), then the rejection.
responseInterceptor_unauthorized(p) ==
    /\ pc[p] = "unauthorized"
    /\ \E ok \in BOOLEAN :
         /\ storage' = IF ok THEN removeToken(storage) ELSE storage
         /\ removeCalls' = [removeCalls EXCEPT ![p] = Append(@, ok)]
    /\ history' = [history EXCEPT !.unauthorized = TRUE]
    /\ thrown' = [thrown EXCEPT ![p] = Rejection(resp[p])]
    /\ pc' = [pc EXCEPT ![p] = "settled"]
    /\ UNCHANGED << session, resp, reqAuth, result, rsToken, rsUserData, regEmail,
                    logoutCaller, nav, cpState, evState, subflows, opWrote, readCalls >>

\* ------------------------------------------------------- login / register
\* validateForm of LoginScreen
loginFormValid(email, password) ==
    /\ trim(email) # ""
    /\ validateEmail(email)
    /\ password # ""

\* validateForm of RegisterScreen
registerFormValid(email, password) ==
    /\ trim(email) # ""
    /\ validateEmail(email)
    /\ password # ""
    /\ validatePassword(password)

\* login(email, password) / register(email, password) up to the post.
authCall_start(p, email) ==
    /\ loading' = TRUE
    /\ error' = Null
    /\ pc' = [pc EXCEPT ![p] = "request"]
    /\ resp' = [resp EXCEPT ![p] = NoError]
    /\ thrown' = [thrown EXCEPT ![p] = NoError]
    /\ reqAuth' = [reqAuth EXCEPT ![p] = Absent]
    /\ result' = [result EXCEPT ![p] = NotSettled]
    /\ regEmail' = IF p = "register" THEN email ELSE regEmail
    /\ opWrote' = {}
    /\ removeCalls' = [removeCalls EXCEPT ![p] = << >>]
    /\ readCalls' = [readCalls EXCEPT ![p] = << >>]
    /\ UNCHANGED << user, storage, rsToken, rsUserData, logoutCaller, nav, cpState, evState, subflows,
                    history >>

\* handleLogin with the fields holding these texts: clears the error,
\* validates, calls login.
handleLogin_with(email, password) ==
    IF loginFormValid(email, password)
    THEN authCall_start("login", email)
    ELSE /\ error' = Null
         /\ UNCHANGED << user, loading, storage, control, nav, cpState, evState, subflows, logs >>

handleLogin ==
    /\ Screen = "login"
    /\ UIReady
    /\ \E email \in EmailInputs, password \in PasswordInputs :
         handleLogin_with(email, password)

\* handleRegister with the fields holding these texts: clears the error,
\* validates, calls register.
handleRegister_with(email, password) ==
    IF registerFormValid(email, password)
    THEN authCall_start("register", email)
    ELSE /\ error' = Null
         /\ UNCHANGED << user, loading, storage, control, nav, cpState, evState, subflows, logs >>

handleRegister ==
    /\ Screen = "register"
    /\ UIReady
    /\ \E email \in EmailInputs, password \in PasswordInputs :
         handleRegister_with(email, password)

\* AsyncStorage.setItem(TOKEN_KEY, token)
storeToken(store, token) == [store EXCEPT ![TOKEN_KEY] = token]

storeUserRecord_unserialized(store, userData) ==
    [store EXCEPT ![USER_KEY] = userData]

\* AsyncStorage.setItem(USER_KEY, JSON.stringify(userData))
storeUserRecord(store, userData) ==
    [store EXCEPT ![USER_KEY] = JSON_stringify(userData)]

authCall_catch_keepsLoading(p, e) ==
    /\ error' = handleAuthError(e)
    /\ user' = user
    /\ loading' = loading
    /\ result' = [result EXCEPT ![p] = Settled("failure", handleAuthError(e))]
    /\ pc' = [pc EXCEPT ![p] = "done"]

\* catch (err) { setError(handleAuthError(err)); return {success:false,...} }
\* followed by finally { setLoading(false) }.
authCall_catch(p, e) ==
    /\ error' = handleAuthError(e)
    /\ user' = user
    /\ loading' = FALSE
    /\ result' = [result EXCEPT ![p] = Settled("failure", handleAuthError(e))]
    /\ pc' = [pc EXCEPT ![p] = "done"]

\* The post has settled: the catch on a rejection, else
\* await AsyncStorage.setItem(TOKEN_KEY, token).
authCall_storeToken(p) ==
    /\ pc[p] = "settled"
    /\ IF thrown[p] # NoError
       THEN /\ authCall_catch(p, thrown[p])
            /\ UNCHANGED << storage, opWrote >>
       ELSE \E ok \in BOOLEAN :
              IF ok
              THEN /\ storage' = storeToken(storage, resp[p].token)
                   /\ opWrote' = opWrote \cup { TOKEN_KEY }
                   /\ pc' = [pc EXCEPT ![p] = "storeUser"]
                   /\ UNCHANGED << session, result >>
              ELSE /\ authCall_catch(p, StorageError)
                   /\ UNCHANGED << storage, opWrote >>
    /\ UNCHANGED << resp, thrown, reqAuth, rsToken, rsUserData, regEmail, logoutCaller,
                    nav, cpState, evState, subflows, history, removeCalls, readCalls >>

\* await AsyncStorage.setItem(USER_KEY, JSON.stringify(userData)), then
\* setUser, setError(null), return {success:true} and finally.
authCall_storeUser(p) ==
    /\ pc[p] = "storeUser"
    /\ \E ok \in BOOLEAN :
         IF ok
         THEN /\ storage' = storeUserRecord(storage, resp[p].user)
              /\ opWrote' = opWrote \cup { USER_KEY }
              /\ user' = resp[p].user
              /\ error' = Null
              /\ loading' = FALSE
              /\ result' = [result EXCEPT ![p] = Settled("success", Null)]
              /\ pc' = [pc EXCEPT ![p] = "done"]
              /\ history' = [established |-> TRUE, unauthorized |-> FALSE]
         ELSE /\ authCall_catch(p, StorageError)
              /\ UNCHANGED << storage, opWrote, history >>
    /\ UNCHANGED << resp, thrown, reqAuth, rsToken, rsUserData, regEmail, logoutCaller,
                    nav, cpState, evState, subflows, removeCalls, readCalls >>

\* What a returned call leaves behind once its caller has resumed.
Returned(p) ==
    /\ resp' = [resp EXCEPT ![p] = NoError]
    /\ thrown' = [thrown EXCEPT ![p] = NoError]
    /\ reqAuth' = [reqAuth EXCEPT ![p] = Absent]
    /\ result' = [result EXCEPT ![p] = NotSettled]
    /\ removeCalls' = [removeCalls EXCEPT ![p] = << >>]
    /\ readCalls' = [readCalls EXCEPT ![p] = << >>]
    /\ opWrote' = {}

\* handleLogin after `await login(...)`: nothing is left to do.
handleLogin_resume ==
    /\ pc["login"] = "done"
    /\ pc' = [pc EXCEPT !["login"] = "idle"]
    /\ Returned("login")
    /\ UNCHANGED << session, storage, rsToken, rsUserData, regEmail, logoutCaller, nav,
                    cpState, evState, subflows, history >>

\* handleRegister after `await register(...)`: `if (result)` tests the result
\* object, which is an object whether or not success is true.
handleRegister_resume ==
    /\ pc["register"] = "done"
    /\ pc' = [pc EXCEPT !["register"] = "idle"]
    /\ Returned("register")
    /\ verificationEmail' = regEmail
    /\ authScreen' = "email-verification"
    /\ regEmail' = ""
    /\ UNCHANGED << session, storage, rsToken, rsUserData, logoutCaller,
                    mainScreen, effectDep, cpState, evState, subflows, history >>

\* ------------------------------------------------------------------ logout
\* logout() up to its await: setLoading(true), multiRemove called.
logout_start(caller, nextPc) ==
    /\ loading' = TRUE
    /\ pc' = nextPc
    /\ logoutCaller' = caller
    /\ result' = [result EXCEPT !["logout"] = NotSettled]
    /\ opWrote' = {}
    /\ UNCHANGED << user, error, storage, resp, thrown, reqAuth, rsToken, rsUserData, regEmail,
                    nav, history, removeCalls, readCalls >>

\* handleLogout of the home and settings screens.
handleLogout ==
    /\ Screen \in { "home", "settings" }
    /\ UIReady
    /\ logout_start("screen", [pc EXCEPT !["logout"] = "multiRemove"])
    /\ UNCHANGED << cpState, evState, subflows >>

logout_reset_keepsUser == << user, Null >>

\* The session state after multiRemove resolved: setUser(null), setError(null).
logout_reset == << Null, Null >>

\* await AsyncStorage.multiRemove(...): on success the state is reset, on
\* failure the catch logs it; finally setLoading(false).  Never rejects.
logout_multiRemove ==
    /\ pc["logout"] = "multiRemove"
    /\ \E ok \in BOOLEAN :
         IF ok
         THEN /\ storage' = multiRemove(storage)
              /\ user' = logout_reset[1]
              /\ error' = logout_reset[2]
              /\ result' = [result EXCEPT !["logout"] = Settled("resolved", Null)]
              /\ history' = [established |-> FALSE, unauthorized |-> FALSE]
         ELSE /\ result' = [result EXCEPT !["logout"] =
                               Settled("resolved", "Error during logout")]
              /\ UNCHANGED << user, error, storage, history >>
    /\ loading' = FALSE
    /\ pc' = [pc EXCEPT !["logout"] = "done"]
    /\ UNCHANGED << resp, thrown, reqAuth, rsToken, rsUserData, regEmail, logoutCaller,
                    nav, cpState, evState, subflows, opWrote, removeCalls, readCalls >>

\* The caller resumes after `await logout()`: handleLogout has nothing left,
\* handleChangePassword runs its finally { setLoading(false) } on a screen that
\* was unmounted when logout began, which changes nothing.
logout_resume ==
    /\ pc["logout"] = "done"
    /\ pc' = [pc EXCEPT !["logout"] = "idle",
                        !["changePassword"] =
                            IF logoutCaller = "changePassword" THEN "idle" ELSE @]
    /\ result' = [result EXCEPT !["logout"] = NotSettled]
    /\ IF logoutCaller = "changePassword"
       THEN /\ resp' = [resp EXCEPT !["changePassword"] = NoError]
            /\ thrown' = [thrown EXCEPT !["changePassword"] = NoError]
            /\ reqAuth' = [reqAuth EXCEPT !["changePassword"] = Absent]
            /\ removeCalls' = [removeCalls EXCEPT !["changePassword"] = << >>]
            /\ readCalls' = [readCalls EXCEPT !["changePassword"] = << >>]
       ELSE UNCHANGED << resp, thrown, reqAuth, removeCalls, readCalls >>
    /\ logoutCaller' = "screen"
    /\ UNCHANGED << session, storage, rsToken, rsUserData, regEmail, nav, cpState, evState, subflows,
                    history, opWrote >>

\* -------------------------------------------------------------- clearError
clearError_resetsScreen ==
    /\ Screen \in { "login", "register" }
    /\ UIReady
    /\ error # Null
    /\ error' = Null
    /\ authScreen' = "login"
    /\ UNCHANGED << user, loading, storage, control, mainScreen, effectDep,
                    verificationEmail, cpState, evState, subflows, logs >>

\* clearError(): setError(null), called by ErrorMessage's onDismiss on the
\* login and register screens.
clearError ==
    /\ Screen \in { "login", "register" }
    /\ UIReady
    /\ error # Null
    /\ error' = Null
    /\ UNCHANGED << user, loading, storage, control, nav, cpState, evState, subflows, logs >>

\* handleEmailChange of the login and register screens: setEmail(text),
\* `if (error) clearError()`.  The text of the field is not kept here.
handleEmailChange ==
    /\ Screen \in { "login", "register" }
    /\ UIReady
    /\ IF Truthy(error) THEN clearError ELSE UNCHANGED vars

\* handlePasswordChange of the login and register screens: setPassword(text),
\* `if (error) clearError()`.
handlePasswordChange ==
    /\ Screen \in { "login", "register" }
    /\ UIReady
    /\ IF Truthy(error) THEN clearError ELSE UNCHANGED vars

\* --------------------------------------------------- ChangePasswordScreen
\* validateForm: the message it sets, Null when the form is valid.
changePassword_validateForm(currentPassword, newPassword, confirmPassword) ==
    IF trim(currentPassword) = "" THEN "Current password is required"
    ELSE IF trim(newPassword) = "" THEN "New password is required"
    ELSE IF ~validatePassword(newPassword)
    THEN "New password must be at least 6 characters long"
    ELSE IF trim(confirmPassword) = "" THEN "Please confirm your new password"
    ELSE IF newPassword # confirmPassword THEN "New passwords do not match"
    ELSE Null

\* handleChangePassword with the fields holding these texts, up to the post.
handleChangePassword_with(currentPassword, newPassword, confirmPassword) ==
    LET invalid == changePassword_validateForm(currentPassword, newPassword,
                                               confirmPassword)
    IN  IF invalid # Null
        THEN /\ cpError' = invalid
             /\ cpSuccess' = FALSE
             /\ UNCHANGED << cpLoading, control, removeCalls, readCalls >>
        ELSE /\ cpError' = Null
             /\ cpSuccess' = FALSE
             /\ cpLoading' = TRUE
             /\ pc' = [pc EXCEPT !["changePassword"] = "request"]
             /\ resp' = [resp EXCEPT !["changePassword"] = NoError]
             /\ thrown' = [thrown EXCEPT !["changePassword"] = NoError]
             /\ reqAuth' = [reqAuth EXCEPT !["changePassword"] = Absent]
             /\ result' = [result EXCEPT !["changePassword"] = NotSettled]
             /\ removeCalls' = [removeCalls EXCEPT !["changePassword"] = << >>]
             /\ readCalls' = [readCalls EXCEPT !["changePassword"] = << >>]
             /\ UNCHANGED << rsToken, rsUserData, regEmail, logoutCaller >>

handleChangePassword ==
    /\ Screen = "change-password"
    /\ UIReady
    /\ ~cpLoading
    /\ pc["changePassword"] = "idle"
    /\ \E currentPassword \in { "", "secret" },
          newPassword \in PasswordInputs, confirmPassword \in PasswordInputs :
         handleChangePassword_with(currentPassword, newPassword, confirmPassword)
    /\ UNCHANGED << session, storage, nav, evState, subflows, history, opWrote >>

\* err.response?.data?.error is an object (the documented body) on which
\* .toLowerCase is not a function: the call throws a TypeError.
toLowerCase_throws(e) == e.shape = "object"

\* errorMessage && errorMessage.toLowerCase().includes('current password')
\* for a body whose error is a string.
SaysCurrentPassword(e) ==
    /\ e.message # ""
    /\ includes(toLowerCase(e.message), "current password")

\* err.response?.data?.error is truthy
HasDataError(e) ==
    \/ e.shape = "object"
    \/ e.shape = "string" /\ e.message # ""

\* The message the catch block shows for an error that is not a 401.
changePassword_errorText(e) ==
    IF HasDataError(e)
    THEN (IF e.shape = "object" THEN EmptyObject ELSE e.message)
    ELSE IF ~HasResponse(e)
    THEN "Unable to connect. Please check your internet connection."
    ELSE "An error occurred. Please try again."

\* What the 401 branch of the catch block does with the error: "throw" (the
\* TypeError leaves the catch block), "field" (the field error is shown) or
\* "logout".
changePassword_on401(e) ==
    IF e.shape = "object" THEN "throw"
    ELSE IF SaysCurrentPassword(e) THEN "field"
    ELSE "logout"

\* handleChangePassword after the post has settled.  Once logout has set the
\* session loading the navigator shows the loading screen: this screen is
\* unmounted and its state is gone (the next mount starts from loading=false).
handleChangePassword_settled ==
    /\ pc["changePassword"] = "settled"
    /\ LET e == thrown["changePassword"]
           branch == IF e = NoError THEN "success"
                     ELSE IF IsUnauthorized(e) THEN changePassword_on401(e)
                     ELSE "message"
       IN  \/ /\ branch # "logout"
              /\ cpSuccess' = IF branch = "success" THEN TRUE ELSE cpSuccess
              /\ cpError' = IF branch = "field" THEN "Current password is incorrect"
                            ELSE IF branch = "message" THEN changePassword_errorText(e)
                            ELSE cpError
              /\ cpLoading' = FALSE
              /\ pc' = [pc EXCEPT !["changePassword"] = "done"]
              /\ result' = [result EXCEPT !["changePassword"] =
                                Settled(IF branch = "throw" THEN "rejected" ELSE "resolved",
                                        Null)]
              /\ UNCHANGED << session, storage, resp, thrown, reqAuth, rsToken,
                              rsUserData, regEmail, logoutCaller, nav, evState, subflows, logs >>
           \/ /\ branch = "logout"
              /\ logout_start("changePassword",
                              [pc EXCEPT !["changePassword"] = "awaitLogout",
                                         !["logout"] = "multiRemove"])
              /\ cpLoading' = FALSE
              /\ UNCHANGED << cpError, cpSuccess, evState, subflows >>

\* The promise handleChangePassword returned has settled; the button press
\* that called it does not await it.
handleChangePassword_return ==
    /\ pc["changePassword"] = "done"
    /\ pc' = [pc EXCEPT !["changePassword"] = "idle"]
    /\ resp' = [resp EXCEPT !["changePassword"] = NoError]
    /\ thrown' = [thrown EXCEPT !["changePassword"] = NoError]
    /\ reqAuth' = [reqAuth EXCEPT !["changePassword"] = Absent]
    /\ result' = [result EXCEPT !["changePassword"] = NotSettled]
    /\ removeCalls' = [removeCalls EXCEPT !["changePassword"] = << >>]
    /\ readCalls' = [readCalls EXCEPT !["changePassword"] = << >>]
    /\ UNCHANGED << session, storage, rsToken, rsUserData, regEmail, logoutCaller,
                    nav, cpState, evState, subflows, history, opWrote >>

\* ------------------------------------------------ EmailVerificationScreen
\* The screen's loading: set from the start of a request to its finally; the
\* screen's inputs and links are disabled while it is set.
evLoading == pc["verifyEmail"] # "idle"

\* handleVerifyEmail up to its await: setLoading(true), setError(null), post.
\* The code inputs are not editable while the screen's loading is set.
handleVerifyEmail ==
    /\ Screen = "email-verification"
    /\ UIReady
    /\ ~evLoading
    /\ evError' = Null
    /\ pc' = [pc EXCEPT !["verifyEmail"] = "request"]
    /\ resp' = [resp EXCEPT !["verifyEmail"] = NoError]
    /\ thrown' = [thrown EXCEPT !["verifyEmail"] = NoError]
    /\ reqAuth' = [reqAuth EXCEPT !["verifyEmail"] = Absent]
    /\ result' = [result EXCEPT !["verifyEmail"] = NotSettled]
    /\ removeCalls' = [removeCalls EXCEPT !["verifyEmail"] = << >>]
    /\ readCalls' = [readCalls EXCEPT !["verifyEmail"] = << >>]
    /\ UNCHANGED << session, storage, rsToken, rsUserData, regEmail, logoutCaller,
                    nav, cpState, history, opWrote >>
    /\ UNCHANGED subflows

\* The message the catch block of handleVerifyEmail shows.
verifyEmail_errorText(e) ==
    IF HasDataError(e)
    THEN (IF e.shape = "object" THEN EmptyObject ELSE e.message)
    ELSE IF ~HasResponse(e)
    THEN "Unable to connect. Please check your internet connection."
    ELSE "Invalid or expired code. Please try again."

storeVerifyToken_authKey(store, token) == [store EXCEPT ![TOKEN_KEY] = token]

\* AsyncStorage.setItem('token', response.data.data.token)
storeVerifyToken(store, token) == [store EXCEPT ![VERIFY_TOKEN_KEY] = token]

onVerificationSuccess_staysOnScreen == "email-verification"

\* onVerificationSuccess={navigateToLogin}: the auth screen it selects.
onVerificationSuccess == "login"

\* handleVerifyEmail after the post has settled: a response with a token goes
\* on to the setItem; one without calls onVerificationSuccess; an error is
\* shown by the catch block; finally setLoading(false).
handleVerifyEmail_settled ==
    /\ pc["verifyEmail"] = "settled"
    /\ LET e == thrown["verifyEmail"]
           r == resp["verifyEmail"]
       IN  \/ /\ e = NoError
              /\ Truthy(r.token)
              /\ pc' = [pc EXCEPT !["verifyEmail"] = "storeToken"]
              /\ UNCHANGED << result, authScreen, evError >>
           \/ /\ e = NoError
              /\ ~Truthy(r.token)
              /\ authScreen' = onVerificationSuccess
              /\ evError' = Null
              /\ pc' = [pc EXCEPT !["verifyEmail"] = "done"]
              /\ result' = [result EXCEPT !["verifyEmail"] = Settled("resolved", Null)]
           \/ /\ e # NoError
              /\ evError' = verifyEmail_errorText(e)
              /\ authScreen' = authScreen
              /\ pc' = [pc EXCEPT !["verifyEmail"] = "done"]
              /\ result' = [result EXCEPT !["verifyEmail"] = Settled("resolved", Null)]
    /\ UNCHANGED << session, storage, resp, thrown, reqAuth, rsToken, rsUserData,
                    regEmail, logoutCaller, mainScreen, effectDep, verificationEmail,
                    cpState, logs >>
    /\ UNCHANGED subflows

\* await AsyncStorage.setItem('token', ...): then onVerificationSuccess(); a
\* rejection enters the catch block as an error without response.
handleVerifyEmail_storeToken ==
    /\ pc["verifyEmail"] = "storeToken"
    /\ \E ok \in BOOLEAN :
         IF ok
         THEN /\ storage' = storeVerifyToken(storage, resp["verifyEmail"].token)
              /\ authScreen' = onVerificationSuccess
              /\ evError' = Null
         ELSE /\ storage' = storage
              /\ authScreen' = authScreen
              /\ evError' = verifyEmail_errorText(StorageError)
    /\ pc' = [pc EXCEPT !["verifyEmail"] = "done"]
    /\ result' = [result EXCEPT !["verifyEmail"] = Settled("resolved", Null)]
    /\ UNCHANGED << session, resp, thrown, reqAuth, rsToken, rsUserData, regEmail,
                    logoutCaller, mainScreen, effectDep, verificationEmail,
                    cpState, logs >>
    /\ UNCHANGED subflows

\* The promise handleVerifyEmail returned has settled; nobody awaits it.
handleVerifyEmail_return ==
    /\ pc["verifyEmail"] = "done"
    /\ pc' = [pc EXCEPT !["verifyEmail"] = "idle"]
    /\ resp' = [resp EXCEPT !["verifyEmail"] = NoError]
    /\ thrown' = [thrown EXCEPT !["verifyEmail"] = NoError]
    /\ reqAuth' = [reqAuth EXCEPT !["verifyEmail"] = Absent]
    /\ result' = [result EXCEPT !["verifyEmail"] = NotSettled]
    /\ removeCalls' = [removeCalls EXCEPT !["verifyEmail"] = << >>]
    /\ readCalls' = [readCalls EXCEPT !["verifyEmail"] = << >>]
    /\ UNCHANGED << session, storage, rsToken, rsUserData, regEmail, logoutCaller,
                    nav, cpState, evState, subflows, history, opWrote >>

\* clearError of the screen (ErrorMessage onDismiss, or a digit typed).
verifyEmail_clearError ==
    /\ Screen = "email-verification"
    /\ UIReady
    /\ ~evLoading
    /\ evError # Null
    /\ evError' = Null
    /\ UNCHANGED << session, storage, control, nav, cpState, logs >>
    /\ UNCHANGED subflows

\* ------------------------------------------------------------ AppNavigator
\* React.useEffect(() => { if (isAuthenticated) setMainScreen('home') },
\* [isAuthenticated]): runs after the render in which isAuthenticated changed.
navigator_effect ==
    /\ effectDep # isAuthenticated
    /\ effectDep' = isAuthenticated
    /\ mainScreen' = IF isAuthenticated THEN "home" ELSE mainScreen
    /\ UNCHANGED << session, storage, control, authScreen, verificationEmail,
                    cpState, evState, subflows, logs >>

\* ------------------------------------------------------ password-reset flow
\* ForgotPasswordScreen, VerifyCodeScreen and ResetPasswordScreen with the
\* navigator, for a signed-out session.  Each screen's request is one process;
\* rfSent holds what the request was called with (the values its closure
\* captured).  A screen that is unmounted while its request is in flight
\* leaves an orphan: the request goes on and its calls to the navigator take
\* effect, its updates of the unmounted screen's state do not.  The user
\* starts a request only when no request of the flow is unanswered.
ScreenOf(p) ==
    CASE p = "forgotPassword" -> "forgot-password"
      [] p = "verifyCode" -> "verify-code"
      [] p = "resendCode" -> "verify-code"
      [] p = "resetPassword" -> "reset-password"

NothingSent == [email |-> "", code |-> ""]
Sent(email, code) == [email |-> email, code |-> code]

\* No request of the flow is in flight.
FlowQuiet == \A p \in FlowProcs : pc[p] = "idle"

\* The screen that issued p is still mounted.
Mounted(p) == p \notin rfOrphans

\* The loading flag of each screen.
fpLoading == pc["forgotPassword"] # "idle" /\ Mounted("forgotPassword")
vcLoading ==
    \/ pc["verifyCode"] # "idle" /\ Mounted("verifyCode")
    \/ pc["resendCode"] # "idle" /\ Mounted("resendCode")
rpLoading == pc["resetPassword"] # "idle" /\ Mounted("resetPassword")

\* setAuthScreen(next): a change of screen unmounts the current one, whose
\* state is gone (every screen is mounted with its initial state) and whose
\* requests in flight, other than the one that is just finishing, are orphans.
OrphansAfter(next, finishing) ==
    IF next = authScreen THEN rfOrphans
    ELSE rfOrphans \cup { p \in FlowProcs \ { finishing } :
                            pc[p] # "idle" /\ ScreenOf(p) = authScreen }

LocalAfter(next, current) ==
    IF next = authScreen THEN current
    ELSE [fpError |-> Null, vcError |-> Null, vcCooldown |-> FALSE,
          rpError |-> Null, rpSuccess |-> FALSE]

Local == [fpError |-> fpError, vcError |-> vcError, vcCooldown |-> vcCooldown,
          rpError |-> rpError, rpSuccess |-> rpSuccess]

SetLocal(l) ==
    /\ fpError' = l.fpError
    /\ vcError' = l.vcError
    /\ vcCooldown' = l.vcCooldown
    /\ rpError' = l.rpError
    /\ rpSuccess' = l.rpSuccess

\* ------------------------------------------------------------- navigation
navigateToRegister ==
    /\ Screen = "login"
    /\ UIReady
    /\ authScreen' = "register"
    /\ UNCHANGED << session, storage, control, mainScreen, effectDep,
                    verificationEmail, cpState, evState, subflows, logs >>

\* Leaving the email-verification screen unmounts it: its state is gone.
navigateToLogin ==
    /\ Screen \in { "register", "email-verification", "forgot-password" }
    /\ ~evLoading
    /\ ~fpLoading
    /\ UIReady
    /\ authScreen' = "login"
    /\ evError' = Null
    /\ SetLocal(LocalAfter("login", Local))
    /\ UNCHANGED << session, storage, control, mainScreen, effectDep,
                    verificationEmail, cpState, logs >>
    /\ UNCHANGED << psState, ceState, fmState, cdState, resetEmail, resetCode, timers, rfSent,
                    rfOrphans, lastForgot, lastAccepted >>

\* The link of the login screen, the back button of the verify-code screen
\* and the "request new code" link of the reset-password screen (the last two
\* disabled while their screen is loading).
navigateToForgotPassword ==
    /\ \/ Screen = "login"
       \/ Screen = "verify-code" /\ ~vcLoading
       \/ Screen = "reset-password" /\ ~rpLoading
    /\ UIReady
    /\ authScreen' = "forgot-password"
    /\ SetLocal(LocalAfter("forgot-password", Local))
    /\ UNCHANGED << session, storage, control, mainScreen, effectDep,
                    verificationEmail, cpState, evState, logs >>
    /\ UNCHANGED << psState, ceState, fmState, cdState, resetEmail, resetCode, timers, rfSent,
                    rfOrphans, lastForgot, lastAccepted >>

\* From home, or as the back action of the change-password screen (disabled
\* while its request is in flight), which is unmounted by it.
navigateToSettings ==
    /\ \/ Screen = "home"
       \/ Screen = "change-password" /\ ~cpLoading
    /\ UIReady
    /\ mainScreen' = "settings"
    /\ cpError' = Null
    /\ cpLoading' = FALSE
    /\ cpSuccess' = FALSE
    /\ UNCHANGED << session, storage, control, authScreen, effectDep,
                    verificationEmail, evState, subflows, logs >>

navigateToChangePassword_fromHome ==
    /\ Screen \in { "home", "settings" }
    /\ UIReady
    /\ mainScreen' = "change-password"
    /\ cpError' = Null
    /\ cpLoading' = FALSE
    /\ cpSuccess' = FALSE
    /\ UNCHANGED << session, storage, control, authScreen, effectDep,
                    verificationEmail, evState, subflows, logs >>

\* The change-password screen is mounted with its initial state.
navigateToChangePassword ==
    /\ Screen = "settings"
    /\ UIReady
    /\ mainScreen' = "change-password"
    /\ cpError' = Null
    /\ cpLoading' = FALSE
    /\ cpSuccess' = FALSE
    /\ UNCHANGED << session, storage, control, authScreen, effectDep,
                    verificationEmail, evState, subflows, logs >>

navigateToHome ==
    /\ Screen = "settings"
    /\ UIReady
    /\ mainScreen' = "home"
    /\ UNCHANGED << session, storage, control, authScreen, effectDep,
                    verificationEmail, cpState, evState, subflows, logs >>

\* ----------------------------------------------------------- specification
Next ==
    \/ checkAuthStatus_mount
    \/ checkAuthStatus_getToken
    \/ checkAuthStatus_getUser
    \/ checkAuthStatus_multiRemove
    \/ checkAuthStatus_settled
    \/ AppRestart
    \/ handleLogin
    \/ handleRegister
    \/ \E p \in Requesters : requestInterceptor(p)
    \/ \E p \in Requesters : responseInterceptor_receive(p)
    \/ \E p \in Requesters : responseInterceptor_unauthorized(p)
    \/ \E p \in AuthCalls : authCall_storeToken(p)
    \/ \E p \in AuthCalls : authCall_storeUser(p)
    \/ handleLogin_resume
    \/ handleRegister_resume
    \/ handleLogout
    \/ logout_multiRemove
    \/ logout_resume
    \/ clearError
    \/ handleEmailChange
    \/ handlePasswordChange
    \/ handleChangePassword
    \/ handleChangePassword_settled
    \/ handleChangePassword_return
    \/ handleVerifyEmail
    \/ handleVerifyEmail_settled
    \/ handleVerifyEmail_storeToken
    \/ handleVerifyEmail_return
    \/ verifyEmail_clearError
    \/ navigator_effect
    \/ navigateToRegister
    \/ navigateToLogin
    \/ navigateToForgotPassword
    \/ navigateToSettings
    \/ navigateToChangePassword
    \/ navigateToHome

Spec == Init /\ [][Next]_vars

\* One run of the process, from its start to wherever it gets: no restart.
\* The steps the event loop takes by itself (completions of storage and
\* network calls, continuations, effects), as opposed to what the user does.
Completions ==
    \/ checkAuthStatus_mount
    \/ checkAuthStatus_getToken
    \/ checkAuthStatus_getUser
    \/ checkAuthStatus_multiRemove
    \/ checkAuthStatus_settled
    \/ \E p \in Requesters : requestInterceptor(p)
    \/ \E p \in Requesters : responseInterceptor_receive(p)
    \/ \E p \in Requesters : responseInterceptor_unauthorized(p)
    \/ \E p \in AuthCalls : authCall_storeToken(p)
    \/ \E p \in AuthCalls : authCall_storeUser(p)
    \/ handleLogin_resume
    \/ handleRegister_resume
    \/ logout_multiRemove
    \/ logout_resume
    \/ handleChangePassword_settled
    \/ handleChangePassword_return
    \/ handleVerifyEmail_settled
    \/ handleVerifyEmail_storeToken
    \/ handleVerifyEmail_return
    \/ navigator_effect

UserEvents ==
    \/ handleLogin
    \/ handleRegister
    \/ handleLogout
    \/ clearError
    \/ handleEmailChange
    \/ handlePasswordChange
    \/ handleChangePassword
    \/ handleVerifyEmail
    \/ verifyEmail_clearError
    \/ navigateToRegister
    \/ navigateToLogin
    \/ navigateToForgotPassword
    \/ navigateToSettings
    \/ navigateToChangePassword
    \/ navigateToHome

NextRun == Completions \/ UserEvents

\* Every storage and network call completes (the request timeout bounds the
\* wait for a response) and the event loop runs every pending continuation.
FairSpec == Init /\ [][NextRun]_vars /\ WF_vars(Completions)

\* ============================================ the parts studied on their own
\* The session machine at rest, signed out: what the restore of an empty
\* storage leaves behind (no user, nothing in flight, the login screen).
SignedOut ==
    /\ storage = [k \in Keys |-> Absent]
    /\ user = Null
    /\ loading = FALSE
    /\ error = Null
    /\ pc = [p \in Procs |-> "idle"]
    /\ resp = [p \in Requesters |-> NoError]
    /\ thrown = [p \in Requesters |-> NoError]
    /\ reqAuth = [p \in Requesters |-> Absent]
    /\ result = [p \in Procs |-> NotSettled]
    /\ rsToken = Absent
    /\ rsUserData = Absent
    /\ regEmail = ""
    /\ logoutCaller = "screen"
    /\ authScreen = "login"
    /\ mainScreen = "home"
    /\ effectDep = FALSE
    /\ verificationEmail = ""
    /\ cpError = Null
    /\ cpLoading = FALSE
    /\ cpSuccess = FALSE
    /\ evError = Null
    /\ history = [established |-> FALSE, unauthorized |-> FALSE]
    /\ opWrote = {}
    /\ removeCalls = [p \in Requesters |-> << >>]
    /\ readCalls = [p \in Requesters |-> << >>]

\* ------------------------------------------------ PasswordStrengthIndicator
Digits == "0123456789"
\* the class of /[!@#$%^&*(),.?":{}|<>]/
SpecialChars == "!@#$%^&*(),.?\":{}|<>"

\* c is one of the characters of chars
CharIn(c, chars) == \E j \in 1..Len(chars) : SubSeq(chars, j, j) = c

\* /[chars]/.test(s)
HasCharOf(s, chars) == \E i \in 1..Len(s) : CharIn(SubSeq(s, i, i), chars)

calculatePasswordStrength_twoClasses(pw) ==
    IF Len(pw) < 6 THEN "weak"
    ELSE IF Len(pw) < 10 THEN "medium"
    ELSE LET varietyCount ==
                 Cardinality({ chars \in { UpperLetters, LowerLetters, Digits, SpecialChars } :
                                 HasCharOf(pw, chars) })
         IN  IF varietyCount >= 2 THEN "strong" ELSE "medium"

calculatePasswordStrength(pw) ==
    IF Len(pw) < 6 THEN "weak"
    ELSE IF Len(pw) < 10 THEN "medium"
    ELSE LET varietyCount ==
                 Cardinality({ chars \in { UpperLetters, LowerLetters, Digits, SpecialChars } :
                                 HasCharOf(pw, chars) })
         IN  IF varietyCount >= 3 THEN "strong" ELSE "medium"

\* n times the character c
RECURSIVE Rep(_, _)
Rep(c, n) == IF n = 0 THEN "" ELSE Rep(c, n - 1) \o c

\* The passwords typed: a run of each kind of character, the last two kinds
\* being a character of the special class and one outside every class.
MaxUpper == 2
MaxLower == 9
MaxDigits == 2
MaxSpecial == 1
MaxOther == 2
StrengthInputs ==
    { Rep("A", u) \o Rep("a", l) \o Rep("1", d) \o Rep("!", x) \o Rep("-", o) :
        u \in 0..MaxUpper, l \in 0..MaxLower, d \in 0..MaxDigits,
        x \in 0..MaxSpecial, o \in 0..MaxOther }

\* The indicator is rendered with the password of the new-password field:
\* nothing is shown for an empty password.
PasswordStrengthIndicator ==
    /\ strength = Null
    /\ Truthy(psPassword)
    /\ strength' = calculatePasswordStrength(psPassword)
    /\ UNCHANGED << psPassword, mainVars, ceState, rfState, fmState, cdState >>

\* Any of the passwords is in the field, not yet rendered.
StrengthInit ==
    /\ SignedOut
    /\ psPassword \in StrengthInputs
    /\ strength = Null
    /\ CodeEntryAtRest
    /\ ResetFlowAtRest
    /\ FormAtRest
    /\ CooldownAtRest

StrengthNext == PasswordStrengthIndicator

StrengthSpec == StrengthInit /\ [][StrengthNext]_vars

\* ------------------------------- code entry (VerifyCodeScreen, EmailVerificationScreen)
\* Both screens hold the same state and the same handleCodeChange; ceScreen
\* says which of the two is mounted.
CodeScreens == { "verify-code", "email-verification" }
\* useState<string[]>(['', '', '', '', '', ''])
EmptyCode == << "", "", "", "", "", "" >>
\* What onChangeText can deliver: nothing (the slot was emptied), a digit, a
\* character that is no digit, two characters at once.
CodeValues == { "", "1", "2", "a", "12", "2a" }

\* value.slice(-1)
LastChar(value) == SubSeq(value, Len(value), Len(value))

\* /^\d$/.test(value)
IsDigit(value) == Len(value) = 1 /\ CharIn(value, Digits)

\* newCode.every(digit => digit !== '')
AllFilled(newCode) == \A k \in 1..Len(newCode) : newCode[k] # ""

\* newCode.join('')
Join(newCode) ==
    newCode[1] \o newCode[2] \o newCode[3] \o newCode[4] \o newCode[5] \o newCode[6]

\* handleCodeChange(value, index) of VerifyCodeScreen, index counted from 0 as
\* in the source.  What it leaves behind: ignored (the early return), the new
\* slots, and the string it submits, Null when it submits nothing.
handleCodeChange(code, value, index) ==
    LET v == IF Len(value) > 1 THEN LastChar(value) ELSE value
        newCode == [code EXCEPT ![index + 1] = v]
    IN  IF v # "" /\ ~IsDigit(v)
        THEN [ignored |-> TRUE, code |-> code, submit |-> Null]
        ELSE [ignored |-> FALSE, code |-> newCode,
              submit |-> IF v # "" /\ index = 5 /\ AllFilled(newCode)
                         THEN Join(newCode) ELSE Null]

\* handleCodeChange of EmailVerificationScreen: the same function, calling
\* handleVerifyEmail where the other calls handleVerifyCode.
EmailVerification_handleCodeChange(code, value, index) ==
    handleCodeChange(code, value, index)

\* The screen's loading.
ceLoading == ceBusy # "idle"

\* A slot changes (the inputs are editable while loading is false).  A
\* submission is handleVerifyCode / handleVerifyEmail up to its await:
\* setLoading(true), setError(null), the post.
codeEntry_handleCodeChange_with(value, index) ==
    LET out == IF ceScreen = "verify-code"
               THEN handleCodeChange(ceCode, value, index)
               ELSE EmailVerification_handleCodeChange(ceCode, value, index)
    IN  /\ ceCode' = out.code
        /\ ceError' = IF out.ignored THEN ceError ELSE Null
        /\ ceSubmitted' = out.submit
        /\ ceBusy' = IF out.submit # Null THEN "verify" ELSE ceBusy

codeEntry_handleCodeChange ==
    /\ ~ceLoading
    /\ \E value \in CodeValues, index \in 0..5 :
         codeEntry_handleCodeChange_with(value, index)
    /\ UNCHANGED << ceScreen, ceCooldown, mainVars, psState, rfState, fmState, cdState >>

\* The verification request settles.  On success the screen is left (the
\* next one mounted starts from the initial state); on failure the catch
\* block shows the error and empties the slots; finally setLoading(false).
codeEntry_verifySettled ==
    /\ ceBusy = "verify"
    /\ \E ok \in BOOLEAN :
         IF ok
         THEN /\ ceError' = Null
              /\ ceCooldown' = FALSE
         ELSE /\ ceError' = "Invalid or expired code. Please try again."
              /\ ceCooldown' = ceCooldown
    /\ ceCode' = EmptyCode
    /\ ceSubmitted' = Null
    /\ ceBusy' = "idle"
    /\ UNCHANGED << ceScreen, mainVars, psState, rfState, fmState, cdState >>

\* handleResendCode up to its await.
codeEntry_handleResendCode ==
    /\ ~ceLoading
    /\ ~ceCooldown
    /\ ceError' = Null
    /\ ceBusy' = "resend"
    /\ UNCHANGED << ceScreen, ceCode, ceSubmitted, ceCooldown, mainVars, psState, rfState, fmState, cdState >>

\* The resend settles: the cooldown starts and the slots are emptied, or the
\* error is shown; finally setLoading(false).
codeEntry_resendSettled ==
    /\ ceBusy = "resend"
    /\ \E ok \in BOOLEAN :
         IF ok
         THEN /\ ceCooldown' = TRUE
              /\ ceCode' = EmptyCode
              /\ ceError' = ceError
         ELSE /\ ceCooldown' = ceCooldown
              /\ ceCode' = ceCode
              /\ ceError' = "An error occurred. Please try again."
    /\ ceBusy' = "idle"
    /\ UNCHANGED << ceScreen, ceSubmitted, mainVars, psState, rfState, fmState, cdState >>

\* The cooldown timer has counted down to 0.
codeEntry_cooldownElapsed ==
    /\ ceCooldown
    /\ ceCooldown' = FALSE
    /\ UNCHANGED << ceScreen, ceCode, ceError, ceBusy, ceSubmitted, mainVars, psState, rfState, fmState, cdState >>

\* ErrorMessage onDismiss
codeEntry_clearError ==
    /\ ceError # Null
    /\ ceError' = Null
    /\ UNCHANGED << ceScreen, ceCode, ceBusy, ceSubmitted, ceCooldown, mainVars, psState, rfState, fmState, cdState >>

\* One of the two screens has just been mounted.
CodeEntryInit ==
    /\ SignedOut
    /\ StrengthAtRest
    /\ ceScreen \in CodeScreens
    /\ ceCode = EmptyCode
    /\ ceError = Null
    /\ ceBusy = "idle"
    /\ ceSubmitted = Null
    /\ ceCooldown = FALSE
    /\ ResetFlowAtRest
    /\ FormAtRest
    /\ CooldownAtRest

CodeEntryNext ==
    \/ codeEntry_handleCodeChange
    \/ codeEntry_verifySettled
    \/ codeEntry_handleResendCode
    \/ codeEntry_resendSettled
    \/ codeEntry_cooldownElapsed
    \/ codeEntry_clearError

CodeEntrySpec == CodeEntryInit /\ [][CodeEntryNext]_vars

\* ------------------------------------------------- resend and its cooldown
\* The resend link of the two code screens with resendCooldown as the number
\* it is (ceCooldown is its abstraction resendCooldown > 0).  One digit is
\* enough here: what is typed matters only in that it can start a
\* verification.

resendDisabled_loadingOnly == ceLoading

\* disabled={loading || resendCooldown > 0}
resendDisabled == ceLoading \/ resendCooldown > 0

\* A slot is filled or emptied: handleCodeChange(value, index).
resend_handleCodeChange ==
    /\ ~ceLoading
    /\ \E value \in { "", "1" }, index \in 0..5 :
         codeEntry_handleCodeChange_with(value, index)
    /\ UNCHANGED << ceScreen, ceCooldown, mainVars, psState, rfState, fmState, cdState >>

\* The verification request settles: on success the screen is left (the next
\* one mounted starts from the initial state), on failure the error is shown
\* and the slots are emptied.
resend_verifySettled ==
    /\ ceBusy = "verify"
    /\ \E ok \in BOOLEAN :
         IF ok
         THEN /\ ceError' = Null
              /\ resendCooldown' = 0
         ELSE /\ ceError' = "Invalid or expired code. Please try again."
              /\ resendCooldown' = resendCooldown
    /\ ceCooldown' = (resendCooldown' > 0)
    /\ ceCode' = EmptyCode
    /\ ceSubmitted' = Null
    /\ ceBusy' = "idle"
    /\ UNCHANGED << ceScreen, mainVars, psState, rfState, fmState >>

\* handleResendCode up to its await.
resend_handleResendCode ==
    /\ ~resendDisabled
    /\ ceError' = Null
    /\ ceBusy' = "resend"
    /\ UNCHANGED << ceScreen, ceCode, ceSubmitted, ceCooldown, mainVars, psState, rfState,
                    fmState, cdState >>

\* handleResendCode after its post has settled: setResendCooldown(60) and the
\* slots emptied, or the error; finally setLoading(false).
resend_settled ==
    /\ ceBusy = "resend"
    /\ \E ok \in BOOLEAN :
         IF ok
         THEN /\ resendCooldown' = RESEND_COOLDOWN
              /\ ceCode' = EmptyCode
              /\ ceError' = ceError
         ELSE /\ resendCooldown' = resendCooldown
              /\ ceCode' = ceCode
              /\ ceError' = "An error occurred. Please try again."
    /\ ceCooldown' = (resendCooldown' > 0)
    /\ ceBusy' = "idle"
    /\ UNCHANGED << ceScreen, ceSubmitted, mainVars, psState, rfState, fmState >>

\* The effect on resendCooldown: while it is above 0, a timeout of one second
\* calls setResendCooldown(resendCooldown - 1).
resend_tick ==
    /\ resendCooldown > 0
    /\ resendCooldown' = resendCooldown - 1
    /\ ceCooldown' = (resendCooldown' > 0)
    /\ UNCHANGED << ceScreen, ceCode, ceError, ceBusy, ceSubmitted, mainVars, psState,
                    rfState, fmState >>

ResendInit ==
    /\ SignedOut
    /\ StrengthAtRest
    /\ ResetFlowAtRest
    /\ FormAtRest
    /\ CooldownAtRest
    /\ ceScreen \in CodeScreens
    /\ ceCode = EmptyCode
    /\ ceError = Null
    /\ ceBusy = "idle"
    /\ ceSubmitted = Null
    /\ ceCooldown = FALSE

ResendNext ==
    \/ resend_handleCodeChange
    \/ resend_verifySettled
    \/ resend_handleResendCode
    \/ resend_settled
    \/ resend_tick
    \/ codeEntry_clearError

ResendSpec == ResendInit /\ [][ResendNext]_vars

\* ------------------------------------- password-reset flow: the requests
\* A request of the flow is called: the post up to the request interceptor.
flow_start(p, payload) ==
    /\ pc' = [pc EXCEPT ![p] = "request"]
    /\ resp' = [resp EXCEPT ![p] = NoError]
    /\ thrown' = [thrown EXCEPT ![p] = NoError]
    /\ reqAuth' = [reqAuth EXCEPT ![p] = Absent]
    /\ result' = [result EXCEPT ![p] = NotSettled]
    /\ removeCalls' = [removeCalls EXCEPT ![p] = << >>]
    /\ readCalls' = [readCalls EXCEPT ![p] = << >>]
    /\ rfSent' = [rfSent EXCEPT ![p] = payload]

\* The promise of a handler of the flow has settled; nobody awaits it.
flow_return(p) ==
    /\ pc[p] = "done"
    /\ pc' = [pc EXCEPT ![p] = "idle"]
    /\ resp' = [resp EXCEPT ![p] = NoError]
    /\ thrown' = [thrown EXCEPT ![p] = NoError]
    /\ reqAuth' = [reqAuth EXCEPT ![p] = Absent]
    /\ result' = [result EXCEPT ![p] = NotSettled]
    /\ removeCalls' = [removeCalls EXCEPT ![p] = << >>]
    /\ readCalls' = [readCalls EXCEPT ![p] = << >>]
    /\ rfSent' = [rfSent EXCEPT ![p] = NothingSent]
    /\ rfOrphans' = rfOrphans \ { p }
    /\ UNCHANGED << session, storage, rsToken, rsUserData, regEmail, logoutCaller, nav,
                    cpState, evState, history, opWrote, psState, ceState, fmState, cdState,
                    resetEmail, resetCode, fpError, vcError, vcCooldown, rpError,
                    rpSuccess, timers, lastForgot, lastAccepted >>

\* What a handler of the flow leaves of the session machine alone when it
\* settles.
flow_settles(p) ==
    /\ pc' = [pc EXCEPT ![p] = "done"]
    /\ result' = [result EXCEPT ![p] = Settled("resolved", Null)]
    /\ UNCHANGED << session, storage, resp, thrown, reqAuth, rsToken, rsUserData,
                    regEmail, logoutCaller, mainScreen, effectDep, verificationEmail,
                    cpState, evState, logs, psState, ceState, fmState, cdState, rfSent >>

\* The catch blocks of the three screens: err.response?.data?.error if there
\* is one, else the connection text, else the screen's own text.
flow_errorText(e, fallback) ==
    IF HasDataError(e)
    THEN (IF e.shape = "object" THEN EmptyObject ELSE e.message)
    ELSE IF ~HasResponse(e)
    THEN "Unable to connect. Please check your internet connection."
    ELSE fallback

\* ---- ForgotPasswordScreen
\* validateForm: the message it sets, Null when the email is valid.
forgotPassword_validateForm(email) ==
    IF trim(email) = "" THEN "Email is required"
    ELSE IF ~validateEmail(email) THEN "Please enter a valid email address"
    ELSE Null

ForgotEmails == { "", "nobody", "a@b.co", " c@d.io " }

\* handleForgotPassword with the email field holding email, up to its await.
handleForgotPassword_with(email) ==
    LET invalid == forgotPassword_validateForm(email)
    IN  IF invalid # Null
        THEN /\ fpError' = invalid
             /\ UNCHANGED << control, removeCalls, readCalls, rfSent >>
        ELSE /\ fpError' = Null
             /\ flow_start("forgotPassword", Sent(trim(email), ""))
             /\ UNCHANGED << rsToken, rsUserData, regEmail, logoutCaller >>

handleForgotPassword ==
    /\ Screen = "forgot-password"
    /\ UIReady
    /\ ~fpLoading
    /\ FlowQuiet
    /\ \E email \in ForgotEmails : handleForgotPassword_with(email)
    /\ UNCHANGED << session, storage, nav, cpState, evState, history, opWrote, psState,
                    ceState, fmState, cdState, resetEmail, resetCode, vcError, vcCooldown, rpError,
                    rpSuccess, timers, rfOrphans, lastForgot, lastAccepted >>

\* navigateToVerifyCode(email)
navigateToVerifyCode(email) ==
    /\ resetEmail' = email
    /\ authScreen' = "verify-code"

\* handleForgotPassword after the post has settled: onNavigateToVerifyCode
\* with the email sent, or the catch block.
handleForgotPassword_settled ==
    /\ pc["forgotPassword"] = "settled"
    /\ LET p == "forgotPassword"
           e == thrown[p]
       IN  IF e = NoError
           THEN /\ navigateToVerifyCode(rfSent[p].email)
                /\ lastForgot' = rfSent[p].email
                /\ SetLocal(LocalAfter("verify-code", Local))
                /\ rfOrphans' = OrphansAfter("verify-code", p)
           ELSE /\ SetLocal(IF Mounted(p)
                            THEN [Local EXCEPT !.fpError =
                                     flow_errorText(e, "An error occurred. Please try again.")]
                            ELSE Local)
                /\ UNCHANGED << resetEmail, authScreen, lastForgot, rfOrphans >>
    /\ flow_settles("forgotPassword")
    /\ UNCHANGED << resetCode, timers, lastAccepted >>

\* ---- VerifyCodeScreen
ResetCodes == { "123456", "654321" }

\* handleVerifyCode(codeString), called by handleCodeChange with the six
\* digits, up to its await; email is the screen's prop.
handleVerifyCode ==
    /\ Screen = "verify-code"
    /\ UIReady
    /\ ~vcLoading
    /\ FlowQuiet
    /\ \E codeString \in ResetCodes :
         flow_start("verifyCode", Sent(resetEmail, codeString))
    /\ vcError' = Null
    /\ UNCHANGED << session, storage, rsToken, rsUserData, regEmail, logoutCaller, nav,
                    cpState, evState, history, opWrote, psState, ceState, fmState, cdState,
                    resetEmail, resetCode, fpError, vcCooldown, rpError, rpSuccess,
                    timers, rfOrphans, lastForgot, lastAccepted >>

navigateToResetPassword_emailOnly(email, code) ==
    /\ resetEmail' = email
    /\ resetCode' = resetCode
    /\ authScreen' = "reset-password"

\* navigateToResetPassword(email, code)
navigateToResetPassword(email, code) ==
    /\ resetEmail' = email
    /\ resetCode' = code
    /\ authScreen' = "reset-password"

\* handleVerifyCode after the post has settled.
handleVerifyCode_settled ==
    /\ pc["verifyCode"] = "settled"
    /\ LET p == "verifyCode"
           e == thrown[p]
       IN  IF e = NoError
           THEN /\ navigateToResetPassword(rfSent[p].email, rfSent[p].code)
                /\ lastAccepted' = << rfSent[p].email, rfSent[p].code >>
                /\ SetLocal(LocalAfter("reset-password", Local))
                /\ rfOrphans' = OrphansAfter("reset-password", p)
           ELSE /\ SetLocal(IF Mounted(p)
                            THEN [Local EXCEPT !.vcError =
                                     flow_errorText(e, "Invalid or expired code. Please try again.")]
                            ELSE Local)
                /\ UNCHANGED << resetEmail, resetCode, authScreen, lastAccepted, rfOrphans >>
    /\ flow_settles("verifyCode")
    /\ UNCHANGED << timers, lastForgot >>

\* handleResendCode up to its await: the forgot-password request again, for the
\* email of the screen.
handleResendCode ==
    /\ Screen = "verify-code"
    /\ UIReady
    /\ ~vcLoading
    /\ ~vcCooldown
    /\ FlowQuiet
    /\ flow_start("resendCode", Sent(resetEmail, ""))
    /\ vcError' = Null
    /\ UNCHANGED << session, storage, rsToken, rsUserData, regEmail, logoutCaller, nav,
                    cpState, evState, history, opWrote, psState, ceState, fmState, cdState,
                    resetEmail, resetCode, fpError, vcCooldown, rpError, rpSuccess,
                    timers, rfOrphans, lastForgot, lastAccepted >>

\* handleResendCode after the post has settled: the cooldown, or the error.
handleResendCode_settled ==
    /\ pc["resendCode"] = "settled"
    /\ LET p == "resendCode"
           e == thrown[p]
       IN  SetLocal(IF ~Mounted(p) THEN Local
                    ELSE IF e = NoError THEN [Local EXCEPT !.vcCooldown = TRUE]
                    ELSE [Local EXCEPT !.vcError =
                             flow_errorText(e, "An error occurred. Please try again.")])
    /\ flow_settles("resendCode")
    /\ UNCHANGED << authScreen, resetEmail, resetCode, timers, rfOrphans, lastForgot,
                    lastAccepted >>

\* The cooldown of the resend link has counted down to 0.
resendCooldown_elapsed ==
    /\ vcCooldown
    /\ vcCooldown' = FALSE
    /\ UNCHANGED << mainVars, psState, ceState, fmState, cdState, resetEmail, resetCode, fpError,
                    vcError, rpError, rpSuccess, timers, rfSent, rfOrphans, lastForgot,
                    lastAccepted >>

\* ---- ResetPasswordScreen
resetPassword_validateForm_noMatch(newPassword, confirmPassword) ==
    IF trim(newPassword) = "" THEN "New password is required"
    ELSE IF ~validatePassword(newPassword)
    THEN "Password must be at least 6 characters long"
    ELSE IF trim(confirmPassword) = "" THEN "Please confirm your password"
    ELSE Null

\* validateForm: the message it sets, Null when the form is valid.
resetPassword_validateForm(newPassword, confirmPassword) ==
    IF trim(newPassword) = "" THEN "New password is required"
    ELSE IF ~validatePassword(newPassword)
    THEN "Password must be at least 6 characters long"
    ELSE IF trim(confirmPassword) = "" THEN "Please confirm your password"
    ELSE IF newPassword # confirmPassword THEN "Passwords do not match"
    ELSE Null

\* The timers that a run may have pending at once.
MaxTimers == 1

\* handleResetPassword with the two fields holding these texts, up to its
\* await; email and code are the screen's props.
handleResetPassword_with(newPassword, confirmPassword) ==
    LET invalid == resetPassword_validateForm(newPassword, confirmPassword)
    IN  IF invalid # Null
        THEN /\ rpError' = invalid
             /\ UNCHANGED << control, removeCalls, readCalls, rfSent >>
        ELSE /\ rpError' = Null
             /\ flow_start("resetPassword", Sent(resetEmail, resetCode))
             /\ UNCHANGED << rsToken, rsUserData, regEmail, logoutCaller >>

handleResetPassword ==
    /\ Screen = "reset-password"
    /\ UIReady
    /\ ~rpLoading
    /\ FlowQuiet
    /\ timers < MaxTimers
    /\ \E newPassword \in PasswordInputs, confirmPassword \in PasswordInputs :
         handleResetPassword_with(newPassword, confirmPassword)
    /\ UNCHANGED << session, storage, nav, cpState, evState, history, opWrote, psState,
                    ceState, fmState, cdState, resetEmail, resetCode, fpError, vcError, vcCooldown,
                    rpSuccess, timers, rfOrphans, lastForgot, lastAccepted >>

\* The catch block of handleResetPassword: what it shows, or "throw" when
\* errorMessage.toLowerCase is called on an error that is an object.
resetPassword_onError(e) ==
    IF HasDataError(e)
    THEN (IF toLowerCase_throws(e) THEN "throw"
          ELSE IF includes(toLowerCase(e.message), "invalid")
                  \/ includes(toLowerCase(e.message), "expired")
          THEN "This code is invalid or has expired. Please request a new one."
          ELSE e.message)
    ELSE IF ~HasResponse(e)
    THEN "Unable to connect. Please check your internet connection."
    ELSE "An error occurred. Please try again."

\* handleResetPassword after the post has settled: success is shown and the
\* navigation to login is scheduled (setTimeout, 2000 ms), or the catch block.
handleResetPassword_settled ==
    /\ pc["resetPassword"] = "settled"
    /\ LET p == "resetPassword"
           e == thrown[p]
       IN  IF e = NoError
           THEN /\ timers' = timers + 1
                /\ SetLocal(IF Mounted(p) THEN [Local EXCEPT !.rpSuccess = TRUE] ELSE Local)
           ELSE /\ timers' = timers
                /\ SetLocal(IF Mounted(p) /\ resetPassword_onError(e) # "throw"
                            THEN [Local EXCEPT !.rpError = resetPassword_onError(e)]
                            ELSE Local)
    /\ flow_settles("resetPassword")
    /\ UNCHANGED << authScreen, resetEmail, resetCode, rfOrphans, lastForgot, lastAccepted >>

\* The timeout set by handleResetPassword fires: onNavigateToLogin(), whatever
\* is shown by then (the timeout is not cleared when the screen is unmounted).
timer_fires ==
    /\ timers > 0
    /\ timers' = timers - 1
    /\ authScreen' = "login"
    /\ SetLocal(LocalAfter("login", Local))
    /\ rfOrphans' = OrphansAfter("login", "none")
    /\ UNCHANGED << session, storage, control, mainScreen, effectDep, verificationEmail,
                    cpState, evState, logs, psState, ceState, fmState, cdState, resetEmail,
                    resetCode, rfSent, lastForgot, lastAccepted >>

\* clearError of the mounted screen of the flow (ErrorMessage onDismiss, or
\* new input while an error is shown).
flow_clearError ==
    /\ Screen \in { "forgot-password", "verify-code", "reset-password" }
    /\ UIReady
    /\ ~fpLoading /\ ~vcLoading /\ ~rpLoading
    /\ fpError # Null \/ vcError # Null \/ rpError # Null
    /\ SetLocal([Local EXCEPT !.fpError = Null, !.vcError = Null, !.rpError = Null])
    /\ UNCHANGED << mainVars, psState, ceState, fmState, cdState, resetEmail, resetCode, timers,
                    rfSent, rfOrphans, lastForgot, lastAccepted >>

ResetFlowInit ==
    /\ SignedOut
    /\ SubflowsAtRest

ResetFlowNext ==
    \/ navigateToForgotPassword
    \/ navigateToLogin
    \/ handleForgotPassword
    \/ handleForgotPassword_settled
    \/ handleVerifyCode
    \/ handleVerifyCode_settled
    \/ handleResendCode
    \/ handleResendCode_settled
    \/ resendCooldown_elapsed
    \/ handleResetPassword
    \/ handleResetPassword_settled
    \/ timer_fires
    \/ flow_clearError
    \/ \E p \in FlowProcs : requestInterceptor(p)
    \/ \E p \in FlowProcs : responseInterceptor_receive(p)
    \/ \E p \in FlowProcs : responseInterceptor_unauthorized(p)
    \/ \E p \in FlowProcs : flow_return(p)

ResetFlowSpec == ResetFlowInit /\ [][ResetFlowNext]_vars

\* -------------------------------------------------------------- the forms
\* The four forms that send a password: the fields are filled in, then the
\* form is submitted.  The machine starts with the form's screen shown: login
\* or register (a session error, left by an attempt that found no
\* connection, is there only while the fields are empty: typing in a field
\* clears it), change-password for a signed-in user, reset-password after a
\* code was accepted.
FormScreens == { "login", "register", "change-password", "reset-password" }
FormEmails == { "", "nobody", "a@b.co", " c@d.io " }
FormPasswords == { "", "abc", "secret", "      ", "secret1" }
ConnectionError == "Unable to connect to server. Please check your internet connection."

\* The session machine at rest with this user (Null: nobody) signed in, this
\* session error, and these screens selected.
SessionAt(u, err, aScreen, mScreen) ==
    /\ storage = [k \in Keys |->
                    IF u = Null THEN Absent
                    ELSE IF k = TOKEN_KEY THEN "tok1"
                    ELSE IF k = USER_KEY THEN JSON_stringify(u)
                    ELSE Absent]
    /\ user = u
    /\ loading = FALSE
    /\ error = err
    /\ pc = [p \in Procs |-> "idle"]
    /\ resp = [p \in Requesters |-> NoError]
    /\ thrown = [p \in Requesters |-> NoError]
    /\ reqAuth = [p \in Requesters |-> Absent]
    /\ result = [p \in Procs |-> NotSettled]
    /\ rsToken = Absent
    /\ rsUserData = Absent
    /\ regEmail = ""
    /\ logoutCaller = "screen"
    /\ authScreen = aScreen
    /\ mainScreen = mScreen
    /\ effectDep = (u # Null)
    /\ verificationEmail = ""
    /\ cpError = Null
    /\ cpLoading = FALSE
    /\ cpSuccess = FALSE
    /\ evError = Null
    /\ history = [established |-> u # Null, unauthorized |-> FALSE]
    /\ opWrote = {}
    /\ removeCalls = [p \in Requesters |-> << >>]
    /\ readCalls = [p \in Requesters |-> << >>]

\* The reset flow after the code 123456 was accepted for a@b.co.
CodeAccepted ==
    /\ resetEmail = "a@b.co"
    /\ resetCode = "123456"
    /\ fpError = Null
    /\ vcError = Null
    /\ vcCooldown = FALSE
    /\ rpError = Null
    /\ rpSuccess = FALSE
    /\ timers = 0
    /\ rfSent = [p \in FlowProcs |-> NothingSent]
    /\ rfOrphans = {}
    /\ lastForgot = "a@b.co"
    /\ lastAccepted = << "a@b.co", "123456" >>

FormInit ==
    /\ StrengthAtRest
    /\ CodeEntryAtRest
    /\ CooldownAtRest
    /\ fmScreen \in FormScreens
    /\ fmEmail \in IF fmScreen \in { "login", "register" } THEN FormEmails ELSE { "" }
    /\ fmPassword \in FormPasswords
    /\ fmCurrent \in IF fmScreen = "change-password" THEN { "", " ", "secret" } ELSE { "" }
    /\ fmConfirm \in IF fmScreen \in { "change-password", "reset-password" }
                     THEN FormPasswords ELSE { "" }
    /\ CASE fmScreen = "change-password" ->
              /\ SessionAt("user1", Null, "login", "change-password")
              /\ ResetFlowAtRest
         [] fmScreen = "reset-password" ->
              /\ SessionAt(Null, Null, "reset-password", "home")
              /\ CodeAccepted
         [] OTHER ->
              /\ \E err \in IF fmEmail = "" /\ fmPassword = ""
                             THEN { Null, ConnectionError } ELSE { Null } :
                   SessionAt(Null, err, fmScreen, "home")
              /\ ResetFlowAtRest

\* The submit button of the form is pressed.
form_handleLogin ==
    /\ fmScreen = "login"
    /\ Screen = "login"
    /\ UIReady
    /\ handleLogin_with(fmEmail, fmPassword)

form_handleRegister ==
    /\ fmScreen = "register"
    /\ Screen = "register"
    /\ UIReady
    /\ handleRegister_with(fmEmail, fmPassword)

form_handleChangePassword ==
    /\ fmScreen = "change-password"
    /\ Screen = "change-password"
    /\ UIReady
    /\ ~cpLoading
    /\ pc["changePassword"] = "idle"
    /\ handleChangePassword_with(fmCurrent, fmPassword, fmConfirm)
    /\ UNCHANGED << session, storage, nav, evState, subflows, history, opWrote >>

form_handleResetPassword ==
    /\ fmScreen = "reset-password"
    /\ Screen = "reset-password"
    /\ UIReady
    /\ ~rpLoading
    /\ FlowQuiet
    /\ handleResetPassword_with(fmPassword, fmConfirm)
    /\ UNCHANGED << session, storage, nav, cpState, evState, history, opWrote, psState,
                    ceState, fmState, cdState, resetEmail, resetCode, fpError, vcError, vcCooldown,
                    rpSuccess, timers, rfOrphans, lastForgot, lastAccepted >>

FormNext ==
    \/ form_handleLogin
    \/ form_handleRegister
    \/ form_handleChangePassword
    \/ form_handleResetPassword

FormSpec == FormInit /\ [][FormNext]_vars

\* ==================================================================== claims
SessionOps == { "restore", "login", "register", "logout" }

\* No operation and no continuation is pending.
Quiescent == \A p \in Procs : pc[p] = "idle"

C2_FailurePersistsNothing ==
    \A p \in AuthCalls :
        (pc[p] = "done" /\ result[p].status = "failure")
            => (user = Null /\ \A k \in opWrote : storage[k] = Absent)

\* A login has returned {success:false} after its write of auth_token went
\* through and its write of auth_user failed: the token is still stored.
C2_Witness ==
    /\ pc["login"] = "done"
    /\ result["login"].status = "failure"
    /\ resp["login"].status = 200
    /\ TOKEN_KEY \in opWrote
    /\ storage[TOKEN_KEY] = resp["login"].token
    /\ user = Null

\* C3: whenever login or register returns {success:true}, the session user is
\* the user the backend returned, auth_token holds the returned token and
\* auth_user holds the serialized returned user.
C3_SuccessPersists ==
    \A p \in AuthCalls :
        (pc[p] = "done" /\ result[p].status = "success")
            => /\ user = resp[p].user
               /\ user \in Users
               /\ storage[TOKEN_KEY] = resp[p].token
               /\ storage[USER_KEY] = RecordPrefix \o resp[p].user \o RecordSuffix

\* A login has returned success with the second user and the second token.
C3_Witness ==
    /\ pc["login"] = "done"
    /\ result["login"].status = "success"
    /\ resp["login"].user = "user2"
    /\ resp["login"].token = "tok2"
    /\ storage[TOKEN_KEY] = "tok2"

\* C4: after any logout whose deletion succeeded, from any prior state, both
\* storage keys are absent and the session user is unset.
C4_LogoutClears ==
    (pc["logout"] = "done" /\ result["logout"] = Settled("resolved", Null))
        => /\ storage[TOKEN_KEY] = Absent
           /\ storage[USER_KEY] = Absent
           /\ user = Null

\* A logout has succeeded directly after a successful register (whose caller
\* had just navigated the auth flow to email verification).
C4_Witness ==
    /\ pc["logout"] = "done"
    /\ result["logout"] = Settled("resolved", Null)
    /\ authScreen = "email-verification"
    /\ user = Null

\* C5: every call to logout, also one whose deletion of the persisted values
\* fails, returns without raising and ends with user unset, error unset and
\* loading = false.
C5_LogoutAlwaysResets ==
    pc["logout"] = "done"
        => /\ result["logout"].status = "resolved"
           /\ user = Null
           /\ error = Null
           /\ loading = FALSE

\* A logout whose deletion failed has returned: the session user is still set.
C5_Witness ==
    /\ pc["logout"] = "done"
    /\ result["logout"] = Settled("resolved", "Error during logout")
    /\ user \in Users
    /\ loading = FALSE

\* The step in which checkAuthStatus ends (its finally block has run).
RestoreEnds ==
    /\ pc["restore"] \in { "getUser", "multiRemove" }
    /\ pc'["restore"] = "done"

\* C6: every restore in which the stored auth_user value is not a well-formed
\* user record, whether or not auth_token is present, ends with the session
\* user unset and with both keys removed from storage.
C6_MalformedRecordDiscarded ==
    [][ (RestoreEnds /\ storage[USER_KEY] # Absent /\ ~WellFormedUser(storage[USER_KEY]))
          => (user' = Null /\ storage'[TOKEN_KEY] = Absent /\ storage'[USER_KEY] = Absent)
      ]_vars

\* A restore that read a token and the record "{}" has ended with the parsed
\* object as the session user and with both keys still stored.
C6_Witness ==
    /\ pc["restore"] = "done"
    /\ rsToken \in Tokens
    /\ rsUserData = EmptyObjectText
    /\ user = EmptyObject
    /\ storage[TOKEN_KEY] = rsToken
    /\ storage[USER_KEY] = EmptyObjectText

\* C7 (as stated): a 401 response received by the wrapper, from any endpoint,
\* deletes the persisted auth_token exactly once and then rejects to the
\* caller with the same error it received.
C7_UnauthorizedDeletesToken ==
    \A p \in Requesters :
        (pc[p] = "settled" /\ resp[p].status = 401)
            => /\ Len(removeCalls[p]) = 1
               /\ storage[TOKEN_KEY] = Absent
               /\ thrown[p] = resp[p]

\* C7 (amended): a 401 response received by the wrapper, from any endpoint,
\* makes it call the removal of auth_token exactly once, after which the
\* token is absent unless that removal itself failed (the failure is caught),
\* and then rejects to the caller with the same error it received.
C7_UnauthorizedRemovesOnce ==
    \A p \in Requesters :
        (pc[p] = "settled" /\ resp[p].status = 401)
            => /\ Len(removeCalls[p]) = 1
               /\ removeCalls[p][1] => storage[TOKEN_KEY] = Absent
               /\ thrown[p] = resp[p]

\* A request sent with a bearer token was answered 401 and the removal of the
\* token succeeded.
C7_Witness ==
    \E p \in Requesters :
        /\ pc[p] = "settled"
        /\ resp[p].status = 401
        /\ reqAuth[p] # Absent
        /\ removeCalls[p] = << TRUE >>
        /\ storage[TOKEN_KEY] = Absent

\* C8: when a change-password request receives a 401 with a body of the
\* documented shape {success:false, error:{message,statusCode}}, the handler
\* shows the field error and keeps the session if the message says that the
\* current password is wrong, and invokes logout otherwise.
C8_ChangePassword401 ==
    LET e == thrown["changePassword"]
    IN  (pc["changePassword"] \in { "done", "awaitLogout" }
           /\ e.status = 401 /\ e.shape = "object")
          => IF e.message = "Current password is incorrect"
             THEN /\ pc["changePassword"] = "done"
                  /\ cpError = "Current password is incorrect"
                  /\ user # Null
             ELSE pc["changePassword"] = "awaitLogout"

\* The handler has rejected on a 401 whose documented body says that the
\* current password is wrong: no field error, no logout, user still set.
C8_Witness ==
    /\ pc["changePassword"] = "done"
    /\ thrown["changePassword"].status = 401
    /\ thrown["changePassword"].shape = "object"
    /\ thrown["changePassword"].message = "Current password is incorrect"
    /\ result["changePassword"].status = "rejected"
    /\ cpError = Null
    /\ user # Null

\* C9: no coordinator operation (restore, login, register, logout) ever
\* settles as a rejected promise, whatever the network or storage does.
C9_NothingEscapes ==
    \A p \in SessionOps : result[p].status # "rejected"

\* The restore has rejected: the removal in its catch block failed after an
\* unparseable record was read.
C9_Witness ==
    /\ pc["restore"] = "done"
    /\ result["restore"].status = "rejected"
    /\ rsUserData = CorruptText
    /\ loading = FALSE

\* One of restore, login, register, logout has started and not yet returned.
OpInFlight == \E p \in SessionOps : pc[p] \notin { "idle", "done" }

\* C10: loading is true exactly while a restore, login, register or logout is
\* in flight, and every such operation whose storage and network calls
\* complete eventually ends with loading = false.
C10_LoadingTracksOperations ==
    /\ [](loading <=> OpInFlight)
    /\ (loading ~> ~loading)

\* A login has failed and returned, and loading is false again.
C10_Witness ==
    /\ pc["login"] = "done"
    /\ result["login"].status = "failure"
    /\ loading = FALSE
    /\ ~OpInFlight

\* The screens of the main flow and of the auth flow.
MainScreens == { "home", "settings", "change-password" }
AuthScreens == { "login", "register", "email-verification", "forgot-password",
                 "verify-code", "reset-password" }

\* C11: whenever the session goes from unauthenticated to authenticated, the
\* main screen rendered is home, whatever mainScreen held from an earlier
\* authenticated period.
C11_AuthenticatedStartsAtHome ==
    [][ (user = Null /\ user' # Null) => Screen' = "home" ]_vars

\* A session has just been established and the settings screen left over from
\* the previous authenticated period is rendered: the navigator's effect has
\* not run yet.
C11_Witness ==
    /\ user \in Users
    /\ ~loading
    /\ effectDep = FALSE
    /\ Screen = "settings"
    /\ pc["login"] = "done"

\* C12: whenever the session user goes from set to unset (a logout, also one
\* a caller invoked on a 401), the auth screen shown next is login.
C12_UnauthenticatedStartsAtLogin ==
    [][ (user # Null /\ user' = Null /\ ~loading') => Screen' = "login" ]_vars

\* A logout has just ended the session that a register had established: the
\* email-verification screen is rendered.
C12_Witness ==
    /\ pc["logout"] = "done"
    /\ result["logout"] = Settled("resolved", Null)
    /\ user = Null
    /\ Screen = "email-verification"

\* C13 (as stated): at any time exactly one of the auth flow and the main flow
\* is rendered, the main flow if and only if the session user is set.
C13_ExactlyOneFlow ==
    /\ (Screen \in MainScreens) <=> (user # Null)
    /\ (Screen \in AuthScreens) <=> (user = Null)

\* C13 (amended): while loading is set the loading screen is rendered and
\* neither flow; otherwise exactly one of the two flows is rendered, the main
\* flow if and only if the session user is set.
C13_OneFlowUnlessLoading ==
    IF loading
    THEN Screen \notin (MainScreens \cup AuthScreens)
    ELSE /\ Screen \in (MainScreens \cup AuthScreens)
         /\ (Screen \in MainScreens) <=> (user # Null)
         /\ (Screen \in AuthScreens) <=> (user = Null)

\* The change-password screen of the main flow is rendered for a session user.
C13_Witness ==
    /\ ~loading
    /\ user \in Users
    /\ Screen = "change-password"

\* The restore has started and has not ended yet.
RestoreInFlight == pc["restore"] \in { "getToken", "getUser", "multiRemove" }

\* C14: the restore is started exactly once, at startup, and until it has
\* completed only the loading screen is rendered.
C14_RestoreOnceBeforeScreens ==
    /\ []((pc["restore"] = "mount" \/ RestoreInFlight) => Screen = "loading")
    /\ [][ pc'["restore"] \in { "mount", "getToken" } => pc["restore"] = "mount" ]_vars
    /\ <>(pc["restore"] = "getToken")

\* The restore has read a stored token and is reading the user record; the
\* loading screen is rendered.
C14_Witness ==
    /\ pc["restore"] = "getUser"
    /\ rsToken \in Tokens
    /\ Screen = "loading"

\* C15: when the startup restore completes with no user the first screen
\* shown is login, and when it completes with a user the first screen shown
\* is home.
C15_FirstScreenAfterRestore ==
    [][ RestoreEnds => Screen' = (IF user' = Null THEN "login" ELSE "home") ]_vars

\* The restore has completed with the stored user and home is rendered.
C15_Witness ==
    /\ pc["restore"] = "done"
    /\ user \in Users
    /\ storage[USER_KEY] = JSON_stringify(user)
    /\ Screen = "home"

\* C16: every restore over a storage in which auth_token and auth_user are
\* both absent ends with no session user and no error, and leaves storage
\* unchanged.
C16_EmptyStorageRestore ==
    [][ (RestoreEnds /\ storage[TOKEN_KEY] = Absent /\ storage[USER_KEY] = Absent)
          => (user' = Null /\ error' = Null /\ storage' = storage) ]_vars

\* A restore over absent auth_token and auth_user, with the 'token' key of an
\* earlier email verification still stored, has ended through its catch block.
C16_Witness ==
    /\ pc["restore"] = "done"
    /\ result["restore"].status = "resolved"
    /\ rsToken = Absent
    /\ rsUserData = Absent
    /\ storage[TOKEN_KEY] = Absent
    /\ storage[USER_KEY] = Absent
    /\ storage[VERIFY_TOKEN_KEY] \in Tokens
    /\ user = Null
    /\ error = Null

\* C17: the wrapper's handling of a 401 response changes only the auth_token
\* key (the session user, error and loading and every other key keep their
\* values), and its handling of any other response leaves storage unchanged.
C17_UnauthorizedTouchesOnlyToken ==
    [][ \A p \in Requesters :
          /\ (pc[p] = "unauthorized" /\ pc'[p] = "settled")
               => /\ user' = user
                  /\ error' = error
                  /\ loading' = loading
                  /\ \A k \in Keys \ { TOKEN_KEY } : storage'[k] = storage[k]
          /\ (pc[p] = "await" /\ pc'[p] \in { "unauthorized", "settled" })
               => storage' = storage
      ]_vars

\* The change-password request of a session restored from storage was answered
\* 401: the token is gone, the user record and the session user are not.
C17_Witness ==
    /\ pc["changePassword"] = "settled"
    /\ resp["changePassword"].status = 401
    /\ removeCalls["changePassword"] = << TRUE >>
    /\ storage[TOKEN_KEY] = Absent
    /\ user \in Users
    /\ storage[USER_KEY] = JSON_stringify(user)

\* C18: every outbound request is sent, with a bearer credential if and only
\* if auth_token is present in storage when the request is sent and can be
\* read, and the credential is exactly that stored token.
C18_BearerIffTokenStored ==
    /\ [](\A p \in Requesters : pc[p] = "request" => ENABLED requestInterceptor(p))
    /\ [][ \A p \in Requesters :
             (pc[p] = "request" /\ pc'[p] = "await")
               => /\ Len(readCalls'[p]) = 1
                  /\ reqAuth'[p] = (IF readCalls'[p][1] /\ storage[TOKEN_KEY] # Absent
                                    THEN "Bearer " \o storage[TOKEN_KEY]
                                    ELSE Absent)
         ]_vars

\* A change-password request has been sent with the stored token as its
\* credential.
C18_Witness ==
    /\ pc["changePassword"] = "await"
    /\ storage[TOKEN_KEY] = "tok2"
    /\ readCalls["changePassword"] = << TRUE >>
    /\ reqAuth["changePassword"] = "Bearer tok2"

\* The message for a failed login or register, by the response r received.
C19_Expected(r) ==
    IF r.shape = "none"
    THEN "Unable to connect to server. Please check your internet connection."
    ELSE LET serverMessage == IF r.shape = "object" THEN r.message ELSE ""
         IN  IF r.status = 400
             THEN (IF r.errors # << >> THEN Head(r.errors)
                   ELSE IF serverMessage # "" THEN serverMessage
                   ELSE "Invalid request. Please check your input.")
             ELSE IF r.status = 401 THEN "Invalid email or password."
             ELSE IF r.status = 409 THEN "An account with this email already exists."
             ELSE IF r.status = 500 THEN "Something went wrong. Please try again later."
             ELSE IF serverMessage # "" THEN serverMessage
             ELSE IF r.status = 200 THEN "An unexpected error occurred. Please try again."
             ELSE "An unexpected error occurred."

\* C19: for every failed login or register the returned error and the session
\* error are the same string, the one the response determines: unable to
\* connect without a response, the first field error or the server message or
\* the invalid-request text for 400, the fixed texts for 401, 409 and 500, and
\* the server message or a generic unexpected-error text for anything else.
C19_ErrorClassification ==
    \A p \in AuthCalls :
        (pc[p] = "done" /\ result[p].status = "failure")
            => /\ result[p].error = error
               /\ error = C19_Expected(resp[p])

\* A login answered 400 with a server message and field errors has failed with
\* the first field error's message.
C19_Witness ==
    /\ pc["login"] = "done"
    /\ result["login"].status = "failure"
    /\ resp["login"].status = 400
    /\ resp["login"].message = "Token expired"
    /\ error = "Password is too short"

\* A step of restore, login, register or logout that writes to storage.
CoordinatorWrite ==
    \/ pc["restore"] = "multiRemove" /\ pc'["restore"] = "done"
    \/ pc["logout"] = "multiRemove" /\ pc'["logout"] = "done"
    \/ \E p \in AuthCalls : pc[p] \in { "settled", "storeUser" } /\ pc'[p] # pc[p]

\* The keys whose stored value the step changes.
KeysChanged == { k \in Keys : storage'[k] # storage[k] }

\* C20 (as stated): the persisted store is mutated only by the session
\* coordinator, and the only keys ever written are auth_token and auth_user.
C20_OnlyCoordinatorMutates ==
    [][ storage' # storage
          => (CoordinatorWrite /\ KeysChanged \subseteq { TOKEN_KEY, USER_KEY }) ]_vars

\* C20 (amended): the persisted store is mutated by the session coordinator
\* (auth_token and auth_user), by the HTTP wrapper, which deletes auth_token
\* on a 401, and by the email-verification screen, which writes the key
\* 'token'; nothing else changes it.
C20_WhoMutatesStorage ==
    [][ storage' # storage
          => \/ CoordinatorWrite /\ KeysChanged \subseteq { TOKEN_KEY, USER_KEY }
             \/ /\ \E p \in Requesters : pc[p] = "unauthorized" /\ pc'[p] = "settled"
                /\ KeysChanged = { TOKEN_KEY }
                /\ storage'[TOKEN_KEY] = Absent
             \/ /\ pc["verifyEmail"] = "storeToken" /\ pc'["verifyEmail"] = "done"
                /\ KeysChanged = { VERIFY_TOKEN_KEY }
                /\ storage'[VERIFY_TOKEN_KEY] = resp["verifyEmail"].token
      ]_vars

\* The email-verification screen has written the token it received under the
\* key 'token'.
C20_Witness ==
    /\ pc["verifyEmail"] = "done"
    /\ resp["verifyEmail"].token \in Tokens
    /\ storage[VERIFY_TOKEN_KEY] = resp["verifyEmail"].token
    /\ authScreen = "login"

\* C21: at most one of restore, login, register, logout has started and not
\* yet handed its result back, and while loading is true neither the login
\* button, nor the register button, nor a logout button can be pressed.
C21_SessionOpsSerialized ==
    /\ Cardinality({ p \in SessionOps : pc[p] # "idle" }) <= 1
    /\ loading => /\ ~ENABLED handleLogin
                  /\ ~ENABLED handleRegister
                  /\ ~ENABLED handleLogout

\* A login request is in flight: the loading screen has replaced the login
\* screen and its button.
C21_Witness ==
    /\ pc["login"] = "await"
    /\ loading
    /\ Screen = "loading"
    /\ authScreen = "login"

\* A step of handleVerifyEmail in which the verification succeeds and
\* onVerificationSuccess is called (the failures end with an error shown).
VerificationSucceeds ==
    /\ pc["verifyEmail"] \in { "settled", "storeToken" }
    /\ pc'["verifyEmail"] = "done"
    /\ evError' = Null

\* C22 (as stated): a successful email verification leaves the session user
\* unset and the auth flow on login, and once a verification has succeeded
\* (its token is in storage) the running application sets the user only in
\* the step in which a login succeeds.
C22_OnlyLoginAuthenticates ==
    [][ /\ VerificationSucceeds => (user' = Null /\ Screen' = "login")
        /\ (pc["verifyEmail"] # pc'["verifyEmail"]) => (user' = user)
        /\ (/\ storage[VERIFY_TOKEN_KEY] # Absent
            /\ pc["restore"] = "idle"
            /\ user = Null /\ user' # Null)
              => (pc["login"] = "storeUser" /\ pc'["login"] = "done")
      ]_vars

\* C22 (amended): a successful email verification leaves the session user
\* unset and the auth flow on login; the user is set only by a successful
\* login, a successful registration, or the restore of a stored session at
\* startup.
C22_VerificationNeverAuthenticates ==
    [][ /\ VerificationSucceeds => (user' = Null /\ Screen' = "login")
        /\ (pc["verifyEmail"] # pc'["verifyEmail"]) => (user' = user)
        /\ (user = Null /\ user' # Null)
              => \/ \E p \in AuthCalls : pc[p] = "storeUser" /\ pc'[p] = "done"
                 \/ pc["restore"] = "getUser" /\ pc'["restore"] = "done"
      ]_vars

\* After a verification that answered with a token, the login screen is shown
\* to a session without user, and a registration made from there has just
\* authenticated it.
C22_Witness ==
    /\ storage[VERIFY_TOKEN_KEY] \in Tokens
    /\ pc["register"] = "done"
    /\ result["register"].status = "success"
    /\ user # Null

\* The number of the four classes of which pw holds a character, a symbol
\* being one of the characters of symbols.
C26_Classes(pw, symbols) ==
    Cardinality({ chars \in { UpperLetters, LowerLetters, Digits, symbols } :
                    HasCharOf(pw, chars) })

C26_Expected(pw, symbols) ==
    IF Len(pw) < 6 THEN "weak"
    ELSE IF Len(pw) >= 10 /\ C26_Classes(pw, symbols) >= 3 THEN "strong"
    ELSE "medium"

\* C26 (as stated): a non-empty password is weak iff shorter than 6, strong
\* iff at least 10 long with at least 3 of the classes upper-case letter,
\* lower-case letter, digit, symbol, and medium otherwise; a symbol being a
\* printable character that is neither a letter nor a digit, such as '-'.
C26_StrengthByLengthAndClasses ==
    strength # Null => strength = C26_Expected(psPassword, SpecialChars \o "-_+=;'/~")

\* C26 (amended): the same, the symbols being exactly the characters
\* ! @ # $ % ^ & * ( ) , . ? " : { } | < > ; a character outside the four
\* classes, such as '-', counts for the length only.
C26_StrengthByLengthAndListedClasses ==
    strength # Null => strength = C26_Expected(psPassword, SpecialChars)

\* A password of 10 characters with upper-case, lower-case and a listed
\* symbol is shown as strong.
C26_Witness ==
    /\ psPassword = "Aaaaaaaaa!"
    /\ strength = "strong"

\* A string of exactly six decimal digits.
SixDigits(s) == Len(s) = 6 /\ \A k \in 1..6 : CharIn(SubSeq(s, k, k), Digits)

\* C29: whenever a change of a slot leaves all six slots filled, whichever
\* slot it was, the verification request is submitted with the six digits in
\* slot order; and every code submitted is exactly six decimal digits.
C29_AutoSubmitWhenFilled ==
    /\ [](ceSubmitted # Null => SixDigits(ceSubmitted))
    /\ [][ (ceCode' # ceCode /\ ~AllFilled(ceCode) /\ AllFilled(ceCode'))
             => (ceBusy' = "verify" /\ ceSubmitted' = Join(ceCode')) ]_vars

\* All six slots are filled, the first one last, and nothing was submitted.
C29_Witness ==
    /\ AllFilled(ceCode)
    /\ ceBusy = "idle"
    /\ ceSubmitted = Null
    /\ ceError = Null

\* A login or a register attempt starts: the coordinator's call is made.
AttemptStarts == \E p \in AuthCalls : pc[p] = "idle" /\ pc'[p] = "request"

\* C25: the session error is unset after a change of the email or password
\* input of the login or register screen, after a dismissal of the error
\* message and after the start of a login or register attempt; and a
\* clearError changes nothing but error.
C25_ErrorClearedOnInputDismissRetry ==
    [][ /\ (handleEmailChange \/ handlePasswordChange \/ clearError \/ AttemptStarts)
            => error' = Null
        /\ clearError
            => UNCHANGED << user, loading, storage, control, nav, cpState, evState,
                            subflows, logs >>
      ]_vars

\* The error of a failed login has just been cleared on the login screen.
C25_Witness ==
    /\ Screen = "login"
    /\ error = Null
    /\ history.unauthorized
    /\ ~history.established
    /\ Quiescent

\* C27: the auth flow moves to the email-verification screen only when the
\* register operation reported success, and when a failed registration has
\* returned the auth flow is still on the register screen.
C27_VerificationOnlyAfterSuccess ==
    [][ /\ (authScreen # "email-verification" /\ authScreen' = "email-verification")
            => result["register"].status = "success"
        /\ (pc["register"] = "done" /\ pc'["register"] = "idle"
              /\ result["register"].status = "failure")
            => authScreen' = "register"
      ]_vars

\* A registration has failed and returned, and the email-verification screen
\* is shown to a session without user, for the email of the failed attempt.
C27_Witness ==
    /\ Quiescent
    /\ user = Null
    /\ error # Null
    /\ Screen = "email-verification"
    /\ verificationEmail = "a@b.co"
    /\ ~history.established

\* C23: whenever the verify-code screen is shown, the email it holds is the
\* one sent by the most recent forgot-password form that succeeded; whenever
\* the reset-password screen is shown, the (email, code) pair it holds is the
\* one accepted by the most recent successful verify-reset-code request;
\* neither screen is shown before such a success.
C23_ResetScreensHoldAcceptedValues ==
    /\ Screen = "verify-code" =>
         /\ lastForgot # Null
         /\ resetEmail = lastForgot
    /\ Screen = "reset-password" =>
         /\ lastAccepted # Null
         /\ << resetEmail, resetCode >> = lastAccepted

\* The reset-password screen is shown for a second email and code, after the
\* flow was gone through before.
C23_Witness ==
    /\ Screen = "reset-password"
    /\ resetEmail = "c@d.io"
    /\ resetCode = "654321"
    /\ timers > 0

\* C24: whenever the login screen is shown, the pending verification email,
\* the pending reset email and the pending reset code are cleared.
C24_PendingValuesClearedAtLogin ==
    Screen = "login" =>
        /\ verificationEmail = ""
        /\ resetEmail = ""
        /\ resetCode = ""

\* The login screen is shown while the navigator still holds the email and
\* the code of the reset that was completed.
C24_Witness ==
    /\ Screen = "login"
    /\ resetEmail = "a@b.co"
    /\ resetCode = "123456"
    /\ timers = 0
    /\ FlowQuiet

\* C30: the delayed navigation to login that follows a successful reset
\* changes the screen only while the reset-password screen is the one shown.
C30_DelayedNavigationOnlyFromResetScreen ==
    [][timers' < timers /\ authScreen # "reset-password" => authScreen' = authScreen]_vars

\* The timeout is pending while another screen than reset-password is shown.
C30_Witness ==
    /\ timers > 0
    /\ Screen = "verify-code"
    /\ resetEmail = "c@d.io"

\* The form that is filled in is valid in the sense of C28.
C28_Valid ==
    CASE fmScreen = "register" -> validateEmail(fmEmail) /\ Len(fmPassword) >= 6
      [] fmScreen = "login" -> validateEmail(fmEmail) /\ fmPassword # ""
      [] fmScreen = "change-password" ->
           Len(fmPassword) >= 6 /\ fmPassword = fmConfirm /\ trim(fmCurrent) # ""
      [] fmScreen = "reset-password" -> Len(fmPassword) >= 6 /\ fmPassword = fmConfirm

\* C28 as stated: submitting a form that fails validation issues no request,
\* and a submission that issues no request changes neither the session (user,
\* loading, error) nor the persisted storage.
C28_RejectedFormChangesNothing ==
    [][/\ ~C28_Valid => pc' = pc
       /\ pc' = pc => /\ << user, loading, error >>' = << user, loading, error >>
                      /\ storage' = storage]_vars

\* C28: submitting a form that fails validation issues no request, and a
\* submission that issues no request leaves the user, the loading flag and the
\* persisted storage as they were; it leaves the session error as it was on
\* the change-password and reset-password screens and clears it on the login
\* and register screens.
C28_RejectedFormKeepsUserAndStorage ==
    [][/\ ~C28_Valid => pc' = pc
       /\ pc' = pc => /\ << user, loading >>' = << user, loading >>
                      /\ storage' = storage
                      /\ error' = IF fmScreen \in { "login", "register" }
                                  THEN Null ELSE error]_vars

\* The reset-password form was submitted with a confirmation that differs
\* and was rejected.
C28_Witness ==
    /\ fmScreen = "reset-password"
    /\ fmPassword = "secret"
    /\ fmConfirm = "secret1"
    /\ rpError = "Passwords do not match"
    /\ FlowQuiet

\* C31: after a change-password attempt was rejected with a 401 for a wrong
\* current password (the screen shows "Current password is incorrect" to the
\* signed-in user), the bearer token is still in storage, so that the next
\* authenticated request carries it.
C31_TokenKeptAfterWrongPassword ==
    (user # Null /\ cpError = "Current password is incorrect")
        => Truthy(storage[TOKEN_KEY])

\* The signed-in user retries on the change-password screen after a 401 and
\* the request, whose read of the token succeeded, is sent without an
\* Authorization header.
C31_Witness ==
    /\ user # Null
    /\ Screen = "change-password"
    /\ history.unauthorized
    /\ pc["changePassword"] = "await"
    /\ readCalls["changePassword"] = << TRUE >>
    /\ reqAuth["changePassword"] = Absent

\* C32: in every state with no operation in flight, in a run in which a
\* session was established (by a login or register that wrote both keys, or by
\* a restore that found both), auth_token and auth_user are either both
\* present or both absent in storage.
C32_TokenAndRecordPaired ==
    (Quiescent /\ history.established)
        => (storage[TOKEN_KEY] = Absent <=> storage[USER_KEY] = Absent)

\* Nothing is in flight, the user signed in by a login is still set, and
\* storage holds the user record without a token.
C32_Witness ==
    /\ Quiescent
    /\ history.established
    /\ user = "user1"
    /\ rsToken = Absent
    /\ storage[TOKEN_KEY] = Absent
    /\ storage[USER_KEY] = JSON_stringify("user1")

\* C33: the error shown on the register screen was produced by an operation
\* started from the register screen.  The navigator's verificationEmail is
\* empty until the first handleRegister of the run has returned, so while it
\* is empty and no register call is pending the register screen shows no
\* error.
C33_ErrorShownBelongsToScreen ==
    (Screen = "register" /\ pc["register"] = "idle" /\ verificationEmail = "")
        => error = Null

\* The register screen, reached from login before any registration was
\* attempted, shows the error of the failed login.
C33_Witness ==
    /\ Screen = "register"
    /\ Quiescent
    /\ verificationEmail = ""
    /\ error = "Invalid email or password."

\* The user a restore sets from this storage when its reads succeed: the
\* parsed record if both values are present and the record parses, nobody
\* otherwise.
C34_RestoreYields(store) ==
    IF BothPresent(store[TOKEN_KEY], store[USER_KEY])
       /\ ~JSON_parse_throws(store[USER_KEY])
    THEN JSON_parse(store[USER_KEY])
    ELSE Null

\* The app is restarted.
C34_Restarts == pc["restore"] # "mount" /\ pc'["restore"] = "mount"

\* C34: a restart that follows a successful login or register leads to a
\* restore that yields the same user; a restart that follows a logout, or a
\* 401 response handled by the HTTP wrapper, leads to a restore that yields
\* an unauthenticated session.
C34_RestoreFollowsLastOperation ==
    [][C34_Restarts =>
         /\ \A p \in AuthCalls :
              (pc[p] = "done" /\ result[p].status = "success")
                  => C34_RestoreYields(storage) = user
         /\ pc["logout"] = "done" => C34_RestoreYields(storage) = Null
         /\ \A p \in Requesters :
              (pc[p] = "settled" /\ resp[p].status = 401)
                  => C34_RestoreYields(storage) = Null]_vars

\* A logout has returned whose deletion failed: both values are still stored
\* and a restore would sign the user in again.
C34_Witness ==
    /\ pc["logout"] = "done"
    /\ result["logout"].error = "Error during logout"
    /\ C34_RestoreYields(storage) = "user1"

\* C35: on the two code screens the cooldown stays within 0..60; it changes
\* only by a successful resend, which sets it to 60, by a tick, which takes
\* one off a cooldown above 0, or by leaving the screen after a successful
\* verification; a resend that fails leaves it as it is; and a resend request
\* is issued only while the cooldown is 0 and no request of the screen is in
\* flight.
C35_ResendCooldown ==
    /\ [](resendCooldown \in 0..RESEND_COOLDOWN)
    /\ [][/\ resendCooldown' # resendCooldown =>
               \/ /\ ceBusy = "resend"
                  /\ ceError' = Null
                  /\ resendCooldown' = RESEND_COOLDOWN
               \/ /\ ceBusy' = ceBusy
                  /\ resendCooldown > 0
                  /\ resendCooldown' = resendCooldown - 1
               \/ /\ ceBusy = "verify"
                  /\ ceError' = Null
                  /\ resendCooldown' = 0
          /\ (ceBusy = "resend" /\ ceBusy' = "idle" /\ ceError' # Null)
               => resendCooldown' = resendCooldown
          /\ (ceBusy # "resend" /\ ceBusy' = "resend")
               => (resendCooldown = 0 /\ ceBusy = "idle")]_vars

\* The cooldown started by a successful resend has counted down to 37 while a
\* verification typed since is in flight.
C35_Witness ==
    /\ resendCooldown = 37
    /\ ceBusy = "verify"
    /\ ceSubmitted = "111111"

\* C36: in every reachable state in which the session user is set, the
\* session error is unset.
C36_AuthenticatedHasNoError ==
    user # Null => error = Null

\* A login has just succeeded in a run in which an earlier registration had
\* returned without a session.
C36_Witness ==
    /\ pc["login"] = "done"
    /\ result["login"].status = "success"
    /\ user # Null
    /\ verificationEmail # ""

\* C37: within the authenticated flow the change-password screen is entered
\* only from settings, its back action leads to settings, the back action of
\* settings leads to home, and home leads only to settings; none of these
\* navigation events changes the session user or the persisted storage.
\* A navigation event of the flow is a step from one rendered main screen to
\* another one; a back action is such a step taken by a user event.
C37_MainNavigation ==
    /\ Screen \in MainScreens
    /\ Screen' \in MainScreens
    /\ Screen' # Screen

C37_AuthenticatedNavigation ==
    [][C37_MainNavigation =>
          /\ Screen' = "change-password" => Screen = "settings"
          /\ (Screen = "change-password" /\ UIReady) => Screen' = "settings"
          /\ Screen = "settings" => Screen' \in { "home", "change-password" }
          /\ Screen = "home" => Screen' = "settings"
          /\ user' = user
          /\ storage' = storage]_vars

\* Home again after settings, change-password and both back actions: the
\* token was removed by a change-password request answered with 401, which is
\* sent only from the change-password screen.
C37_Witness ==
    /\ Screen = "home"
    /\ UIReady
    /\ user # Null
    /\ history.unauthorized
    /\ storage[TOKEN_KEY] = Absent
    /\ storage[USER_KEY] # Absent

====
